---- MODULE Spec2Model ----
(***************************************************************************)
(* Model of the MESH / Smart panel bridge for Home Assistant.              *)
(*                                                                         *)
(*   - the Layout Model of mesh_panel/options_flow.py (_pretty_json,       *)
(*     _pretty_yaml, _ensure_ids, _validate_devices, _parse_raw_to_devices)*)
(*     over a heap of Python list and dict objects;                        *)
(*   - the Layout Editor (MeshPanelOptionsFlowHandler) as the state        *)
(*     machine of its flow steps;                                          *)
(*   - the bridge life cycle of both variants (MeshPanelManager and        *)
(*     SmartPanelController): setup, unload, reload, relay;                *)
(*   - the codecs of both variants: the action handler that turns a panel  *)
(*     message into a service call, and the state relay that turns a state *)
(*     change into messages on the state topic.                            *)
(*                                                                         *)
(* Python values.  A scalar is a record [k, v] with k the Python type and  *)
(* v its text; a list or dict is an object of the heap and is referred to  *)
(* by a reference [k |-> "ref", v |-> address], so that two names bound to *)
(* the same object see each other's in-place mutations.  A dict is a       *)
(* function from keys to items; a str key is its own text and the int key  *)
(* 1 is written "#1".                                                      *)
(*                                                                         *)
(* Texts.  A raw text is modelled by its syntax tree: fmt says which of    *)
(* the two parsers accepts it ("json": json.loads does; "yaml": only       *)
(* yaml.safe_load does; "bad": neither; "blank": empty after strip), and   *)
(* root is the tree of tokens.  JSON tokens are typed by their syntax      *)
(* (jstr, jnum, jnull, jarr, jobj); YAML scalars carry their style (yplain *)
(* is resolved by the implicit typing rules, yquoted is always a str).     *)
(***************************************************************************)
EXTENDS Integers, Sequences, FiniteSets, TLC

\* ------------------------------------------------------------------ bounds
\* Number of cells of the heap.
MaxAddr == 22
MaxDevices == 2
MaxControls == 2
\* Number of fresh ids uuid.uuid4() hands out in one run.
MaxIds == 3
MaxSubmits == 11
MaxInstances == 3
\* Config flows in progress at once, announce messages and entries of a run.
MaxFlows == 2
MaxAnnounces == 3
MaxEntries == 3
\* Action messages of a run.
MaxMessages == 3

\* ------------------------------------------------------------ const.py keys
CONF_ID == "id"
CONF_NAME == "name"
CONF_ICON == "icon"
CONF_CONTROLS == "controls"
CONF_LABEL == "label"
CONF_TYPE == "type"
CONF_ENTITY == "entity"
CONF_OPTIONS == "options"
CONF_DEVICES == "devices"

\* ------------------------------------------------------------ Python values
PStr(s) == [k |-> "str", v |-> s]
PInt(s) == [k |-> "int", v |-> s]
PNone == [k |-> "none", v |-> "None"]
Ref(a) == [k |-> "ref", v |-> a]
PList(s) == [k |-> "list", v |-> s]
PDict(f) == [k |-> "dict", v |-> f]
EmptyF == [z \in {} |-> PNone]

\* The int key 1 of a dict, and the text json.dumps writes for it.
IntKey == "#1"
IntKeyText == "1"

\* uuid.uuid4(): the n-th fresh identifier.
Uuid(n) == PStr("uuid" \o ToString(n))

\* The element of a one-element set.  Only({e(r) : r \in {v}}) is e(r) with
\* r bound to the value of v: "let r = v in e".
Only(S) == CHOOSE y \in S : TRUE

\* ---------------------------------------------------------------- the heap
Addrs == 1..MaxAddr
FreeCell == [k |-> "free", v |-> <<>>]
EmptyHeap == [a \in Addrs |-> FreeCell]
FreeAddrs(h) == {a \in Addrs : h[a].k = "free"}
\* Object creation: the lowest free cell.
Alloc(h) == CHOOSE a \in FreeAddrs(h) : \A b \in FreeAddrs(h) : a <= b
New(h, obj) ==
    Only({[h |-> [h EXCEPT ![a] = obj], item |-> Ref(a)] : a \in {Alloc(h)}})

IsList(h, x) == x.k = "ref" /\ h[x.v].k = "list"
IsDict(h, x) == x.k = "ref" /\ h[x.v].k = "dict"
\* Python truthiness of a value.
Falsy(h, x) ==
    \/ x.k = "none"
    \/ x.k = "str" /\ x.v = ""
    \/ x.k = "int" /\ x.v = "0"
    \/ IsList(h, x) /\ h[x.v].v = <<>>
    \/ IsDict(h, x) /\ DOMAIN h[x.v].v = {}

\* The value an item denotes, read through the references (a tree).
RECURSIVE Snapshot(_, _)
Snapshot(h, x) ==
    IF x.k # "ref" THEN x
    ELSE IF h[x.v].k = "list"
         THEN PList([i \in 1..Len(h[x.v].v) |-> Snapshot(h, h[x.v].v[i])])
         ELSE IF h[x.v].k = "dict"
              THEN PDict([key \in DOMAIN h[x.v].v |-> Snapshot(h, h[x.v].v[key])])
              ELSE FreeCell

\* the elements of a finite set, in a fixed order
RECURSIVE SetToSeq(_)
SetToSeq(S) ==
    IF S = {} THEN <<>>
    ELSE LET e == CHOOSE q \in S : TRUE IN <<e>> \o SetToSeq(S \ {e})

\* A program never sees the address of an object, only whether two names
\* reach the same one.  Objects are therefore numbered in the order a walk
\* from the roots meets them, which gives every heap of the same shape the
\* same numbering.
RefsOf(items) == SelectSeq(items, LAMBDA x : x.k = "ref")
Kids(h, a) ==
    IF h[a].k = "list" THEN RefsOf(h[a].v)
    ELSE IF h[a].k = "dict"
         THEN RefsOf([i \in 1..Cardinality(DOMAIN h[a].v) |->
                         h[a].v[SetToSeq(DOMAIN h[a].v)[i]]])
         ELSE <<>>
RECURSIVE Walk(_, _, _)
Walk(h, todo, seen) ==
    IF todo = <<>> THEN seen
    ELSE IF \E i \in 1..Len(seen) : seen[i] = todo[1].v
         THEN Walk(h, Tail(todo), seen)
         ELSE Walk(h, Kids(h, todo[1].v) \o Tail(todo), Append(seen, todo[1].v))
\* the number of address a in the walk order
Place(order, a) == CHOOSE i \in 1..Len(order) : order[i] = a
Moved(order, x) == IF x.k = "ref" THEN Ref(Place(order, x.v)) ELSE x
MovedCell(order, c) ==
    IF c.k = "list" THEN [k |-> "list", v |-> [i \in 1..Len(c.v) |-> Moved(order, c.v[i])]]
    ELSE [k |-> "dict", v |-> [key \in DOMAIN c.v |-> Moved(order, c.v[key])]]
Renumber(h, order) ==
    [a \in Addrs |-> IF a <= Len(order) THEN MovedCell(order, h[order[a]]) ELSE FreeCell]

\* ------------------------------------------------------------------- texts
\* options_flow.py:28-31: Home Assistant bundles PyYAML, the import succeeds.
yaml == TRUE

\* The plain YAML scalars the implicit resolver does not read as a str.
YamlNullTexts == {"null", "~", ""}
YamlIntTexts == {"0", "1"}
\* yaml.safe_load of a scalar token.
YamlScalar(n) ==
    IF n.k = "yquoted" THEN PStr(n.v)
    ELSE IF n.v \in YamlNullTexts THEN PNone
         ELSE IF n.v \in YamlIntTexts THEN PInt(n.v)
              ELSE PStr(n.v)
\* yaml.safe_load of a mapping key token: the plain token 1 is the int key,
\* the quoted token '1' is the str key "1".
YamlKeyLoad(t) ==
    IF t = IntKeyText THEN IntKey
    ELSE IF t = "'" \o IntKeyText \o "'" THEN IntKeyText
         ELSE t
\* json.loads of a scalar token.
JsonScalar(n) ==
    IF n.k = "jstr" THEN PStr(n.v)
    ELSE IF n.k = "jnum" THEN PInt(n.v)
         ELSE PNone

\* json.loads / yaml.safe_load: the objects the parser builds for a tree of
\* tokens, children first; every list and dict is a new object.
RECURSIVE LoadNode(_, _), LoadSeq(_, _, _), LoadMap(_, _, _, _, _)
LoadSeq(h, nodes, acc) ==
    IF Len(acc) = Len(nodes) THEN [h |-> h, items |-> acc]
    ELSE Only({LoadSeq(r.h, nodes, Append(acc, r.item)) :
                  r \in {LoadNode(h, nodes[Len(acc) + 1])}})
LoadMap(h, kind, m, todo, acc) ==
    IF todo = {} THEN [h |-> h, f |-> acc]
    ELSE Only({LoadMap(r.h, kind, m, todo \ {t},
                       ((IF kind = "ymap" THEN YamlKeyLoad(t) ELSE t) :> r.item) @@ acc) :
                  t \in {CHOOSE q \in todo : TRUE}, r \in {LoadNode(h, m[CHOOSE q \in todo : TRUE])}})
LoadNode(h, n) ==
    IF n.k \in {"jstr", "jnum", "jnull"} THEN [h |-> h, item |-> JsonScalar(n)]
    ELSE IF n.k \in {"yplain", "yquoted"} THEN [h |-> h, item |-> YamlScalar(n)]
    ELSE IF n.k \in {"jarr", "yseq"}
         THEN Only({New(r.h, [k |-> "list", v |-> r.items]) :
                       r \in {LoadSeq(h, n.v, <<>>)}})
         ELSE Only({New(r.h, [k |-> "dict", v |-> r.f]) :
                       r \in {LoadMap(h, n.k, n.v, DOMAIN n.v, EmptyF)}})

\* json.dumps writes every dict key as a string.
JsonKey(key) == IF key = IntKey THEN IntKeyText ELSE key
RECURSIVE JsonNode(_)
JsonNode(x) ==
    IF x.k = "str" THEN [k |-> "jstr", v |-> x.v]
    ELSE IF x.k = "int" THEN [k |-> "jnum", v |-> x.v]
    ELSE IF x.k = "none" THEN [k |-> "jnull", v |-> "null"]
    ELSE IF x.k = "list"
         THEN [k |-> "jarr", v |-> [i \in 1..Len(x.v) |-> JsonNode(x.v[i])]]
         ELSE [k |-> "jobj",
               v |-> [t \in {JsonKey(q) : q \in DOMAIN x.v} |->
                        JsonNode(x.v[CHOOSE q \in DOMAIN x.v : JsonKey(q) = t])]]

\* yaml.safe_dump of a mapping key: the str key "1" is quoted.
YamlKeyDump(key) ==
    IF key = IntKey THEN IntKeyText
    ELSE IF key = IntKeyText THEN "'" \o IntKeyText \o "'"
         ELSE key
\* yaml.safe_dump of a str: plain only when a plain scalar reads back as str.
YamlStrStyle(s) ==
    IF s \in YamlNullTexts \cup YamlIntTexts THEN "yquoted" ELSE "yplain"
RECURSIVE YamlNode(_)
YamlNode(x) ==
    IF x.k = "str" THEN [k |-> YamlStrStyle(x.v), v |-> x.v]
    ELSE IF x.k = "int" THEN [k |-> "yplain", v |-> x.v]
    ELSE IF x.k = "none" THEN [k |-> "yplain", v |-> "null"]
    ELSE IF x.k = "list"
         THEN [k |-> "yseq", v |-> [i \in 1..Len(x.v) |-> YamlNode(x.v[i])]]
         ELSE [k |-> "ymap",
               v |-> [t \in {YamlKeyDump(q) : q \in DOMAIN x.v} |->
                        YamlNode(x.v[CHOOSE q \in DOMAIN x.v : YamlKeyDump(q) = t])]]

\* `devices or []` as a value.
OrEmptyList(x) ==
    IF x.k \in {"none"} \/ x = PStr("") \/ x = PInt("0") \/ x = PDict(EmptyF)
    THEN PList(<<>>) ELSE x

\* _pretty_json(devices), devices given as the value it denotes.
_pretty_json(devices) ==
    [fmt |-> "json", root |-> JsonNode(PDict([devices |-> OrEmptyList(devices)]))]

\* _pretty_yaml(devices).
_pretty_yaml(devices) ==
    IF ~yaml
    THEN IF OrEmptyList(devices) = PList(<<>>)
         THEN [fmt |-> "yaml", root |-> [k |-> "ymap", v |-> [devices |-> [k |-> "yseq", v |-> <<>>]]]]
         ELSE _pretty_json(devices)
    ELSE [fmt |-> "yaml", root |-> YamlNode(PDict([devices |-> OrEmptyList(devices)]))]

\* ------------------------------------------------------------ Layout Model

\* `for e in x`: the elements a for loop draws from a value.  A list gives
\* its items, a dict its keys, a str its characters (each a str); any other
\* value is not iterable.
Iter(h, x) ==
    IF IsList(h, x) THEN [exc |-> "none", items |-> h[x.v].v]
    ELSE IF IsDict(h, x)
         THEN [exc |-> "none",
               items |-> LET ks == SetToSeq(DOMAIN h[x.v].v)
                         IN [i \in 1..Len(ks) |-> PStr(ks[i])]]
    ELSE IF x.k = "str"
         THEN [exc |-> "none", items |-> IF x.v = "" THEN <<>> ELSE <<PStr(x.v)>>]
         ELSE [exc |-> "TypeError", items |-> <<>>]

\* d[key] = value in place of d.setdefault(key, value): the key is written
\* whether or not it is there.
SetAlways(h, a, key, value) == [h EXCEPT ![a].v = (key :> value) @@ @]

\* d.setdefault(key, value) on the dict object at address a.
SetDefault(h, a, key, value) ==
    IF key \in DOMAIN h[a].v THEN h
    ELSE [h EXCEPT ![a].v = (key :> value) @@ @]

\* _ensure_ids, the inner loop: `for c in d[CONF_CONTROLS]`.
RECURSIVE EnsureControls(_, _, _, _)
EnsureControls(h, cs, i, nid) ==
    IF i > Len(cs) THEN [exc |-> "none", h |-> h, nid |-> nid]
    ELSE IF ~IsDict(h, cs[i]) THEN [exc |-> "AttributeError", h |-> h, nid |-> nid]
    ELSE IF CONF_ID \in DOMAIN h[cs[i].v].v
         THEN EnsureControls(h, cs, i + 1, nid)
         ELSE EnsureControls(SetDefault(h, cs[i].v, CONF_ID, Uuid(nid)), cs, i + 1, nid + 1)

\* d.setdefault(CONF_CONTROLS, []) on the dict object at address a.
SetDefaultControls(h, a) ==
    IF CONF_CONTROLS \in DOMAIN h[a].v THEN h
    ELSE Only({[fresh.h EXCEPT ![a].v = (CONF_CONTROLS :> fresh.item) @@ @] :
                  fresh \in {New(h, [k |-> "list", v |-> <<>>])}})

\* _ensure_ids, the body of the outer loop for one device d.
EnsureDevice(h, d, nid) ==
    IF ~IsDict(h, d) THEN [exc |-> "AttributeError", h |-> h, nid |-> nid]
    ELSE Only({Only({Only({IF it.exc # "none"
                           THEN [exc |-> it.exc, h |-> h2, nid |-> n1]
                           ELSE EnsureControls(h2, it.items, 1, n1) :
                              it \in {Iter(h2, h2[d.v].v[CONF_CONTROLS])}}) :
                        h2 \in {SetDefaultControls(h1, d.v)}}) :
                  n1 \in {IF CONF_ID \in DOMAIN h[d.v].v THEN nid ELSE nid + 1},
                  h1 \in {SetDefault(h, d.v, CONF_ID, Uuid(nid))}})

RECURSIVE EnsureDevices(_, _, _, _)
EnsureDevices(h, ds, i, nid) ==
    IF i > Len(ds) THEN [exc |-> "none", h |-> h, nid |-> nid]
    ELSE Only({IF r.exc # "none" THEN r ELSE EnsureDevices(r.h, ds, i + 1, r.nid) :
                  r \in {EnsureDevice(h, ds[i], nid)}})

\* _ensure_ids(devices): in place; the result is the same object.
_ensure_ids(h, devices, nid) ==
    IF Falsy(h, devices) THEN [exc |-> "none", h |-> h, nid |-> nid]
    ELSE Only({IF it.exc # "none" THEN [exc |-> it.exc, h |-> h, nid |-> nid]
               ELSE EnsureDevices(h, it.items, 1, nid) :
                  it \in {Iter(h, devices)}})

\* _validate_devices(devices): TRUE when it returns, FALSE when it raises
\* ValueError.
DeviceKeys == {CONF_NAME, CONF_ICON, CONF_CONTROLS, CONF_ID}
ControlKeys == {CONF_ID, CONF_LABEL, CONF_TYPE, CONF_ENTITY}
ValidControl(h, c) ==
    /\ IsDict(h, c)
    /\ ControlKeys \subseteq DOMAIN h[c.v].v
ValidDevice(h, d) ==
    /\ IsDict(h, d)
    /\ DeviceKeys \subseteq DOMAIN h[d.v].v
    /\ IsList(h, h[d.v].v[CONF_CONTROLS])
    /\ \A i \in 1..Len(h[h[d.v].v[CONF_CONTROLS].v].v) :
          ValidControl(h, h[h[d.v].v[CONF_CONTROLS].v].v[i])
_validate_devices(h, devices) ==
    /\ IsList(h, devices)
    /\ \A i \in 1..Len(h[devices.v].v) : ValidDevice(h, h[devices.v].v[i])

\* _parse_raw_to_devices(raw): the exception it raises ("none" when it
\* returns), the heap it leaves, the devices list it returns and the next
\* unused uuid.
\* An exception leaves the heap as it was: the objects the parser built
\* are unreachable.
Raise(e, h, nid) == [exc |-> e, h |-> h, devices |-> PNone, nid |-> nid]
\* `data.get("devices") or []`
DevicesOrEmpty(h, got) ==
    IF Falsy(h, got) THEN New(h, [k |-> "list", v |-> <<>>]) ELSE [h |-> h, item |-> got]
\* Lines 92-97, data being the parsed text.
ParseData(h, data, nid) ==
    IF ~IsDict(data.h, data.item) \/ CONF_DEVICES \notin DOMAIN data.h[data.item.v].v
    THEN Raise("ValueError", h, nid)
    ELSE Only({Only({IF e.exc # "none" THEN Raise(e.exc, h, nid)
                     ELSE IF ~_validate_devices(e.h, dv.item) THEN Raise("ValueError", h, nid)
                     ELSE [exc |-> "none", h |-> e.h, devices |-> dv.item, nid |-> e.nid] :
                        e \in {_ensure_ids(dv.h, dv.item, nid)}}) :
                  dv \in {DevicesOrEmpty(data.h, data.h[data.item.v].v[CONF_DEVICES])}})
_parse_raw_to_devices(h, raw, nid) ==
    IF raw.fmt = "blank"
    THEN Only({[exc |-> "none", h |-> r.h, devices |-> r.item, nid |-> nid] :
                  r \in {New(h, [k |-> "list", v |-> <<>>])}})
    ELSE IF raw.fmt = "json" \/ (yaml /\ raw.fmt = "yaml")
         THEN Only({ParseData(h, data, nid) : data \in {LoadNode(h, raw.root)}})
         ELSE Raise("ValueError", h, nid)

\* ------------------------------------------------------- raw texts (inputs)
\* The texts a user submits, given by the value they spell out.
CtlFull(id) == PDict([id |-> PStr(id), label |-> PStr("L"), type |-> PStr("switch"),
                      entity |-> PStr("light.x")])
CtlNoId == PDict([label |-> PStr("L"), type |-> PStr("select"), entity |-> PStr("light.x"),
                  options |-> PStr("1")])
CtlNoLabel == PDict([id |-> PStr("c"), type |-> PStr("switch"), entity |-> PStr("light.x")])
ControlsValues ==
    { PList(<<>>), PList(<<CtlFull("c")>>), PList(<<CtlNoId>>),
      PList(<<CtlFull("c"), CtlFull("c")>>), PList(<<CtlFull("a")>>),
      PList(<<CtlFull("c"), CtlNoId>>), PList(<<CtlFull("")>>),
      PList(<<CtlNoLabel>>), PList(<<PStr("x")>>), PList(<<PNone>>),
      PStr("x"), PStr(""), PInt("1"), PNone, PDict([z |-> PStr("x")]) }
DevFull(id, cs) == PDict([id |-> PStr(id), name |-> PStr("N"), icon |-> PStr("mdi:power"),
                          controls |-> cs])
DevNoId(cs) == PDict([name |-> PStr("N"), icon |-> PStr("mdi:power"), controls |-> cs])
DevNoControls == PDict([id |-> PStr("b"), name |-> PStr("N"), icon |-> PStr("mdi:power")])
DevNoName == PDict([id |-> PStr("a"), icon |-> PStr("mdi:power"), controls |-> PList(<<>>)])
DevIntKey == PDict((IntKey :> PStr("x")) @@
                   [id |-> PStr("a"), name |-> PStr("N"), icon |-> PStr("mdi:power"),
                    controls |-> PList(<<>>)])
DeviceValues ==
    {DevFull("a", cs) : cs \in ControlsValues}
    \cup {DevNoId(PList(<<>>)), DevNoId(PList(<<CtlNoId>>)), DevNoControls, DevNoName,
          DevFull("", PList(<<>>)), PStr("x"), PNone}
SecondDevices == {DevFull("a", PList(<<>>)), DevFull("b", PList(<<CtlFull("c")>>)),
                  DevNoId(PList(<<CtlNoId>>)), DevNoName, PStr("x")}
DevicesValues ==
    {PList(<<>>), PStr("x"), PStr(""), PInt("1"), PInt("0"), PNone,
     PDict([z |-> PStr("x")]), PDict(EmptyF)}
    \cup {PList(<<d>>) : d \in DeviceValues}
    \cup {PList(<<d1, d2>>) : d1 \in {DevFull("a", PList(<<CtlFull("c")>>)),
                                      DevNoId(PList(<<>>))},
                              d2 \in SecondDevices}
RootValues ==
    {PDict([devices |-> dv]) : dv \in DevicesValues}
    \cup {PList(<<>>), PStr("x"), PDict([panels |-> PList(<<>>)]), PDict(EmptyF)}
\* A device with the int key 1 can only be written in YAML.
YamlOnlyValues == {PDict([devices |-> PList(<<DevIntKey>>)])}
BadText == [fmt |-> "bad", root |-> [k |-> "jnull", v |-> "null"]]
BlankText == [fmt |-> "blank", root |-> [k |-> "jnull", v |-> "null"]]
\* No text was submitted.
NoRawText == [fmt |-> "none", root |-> [k |-> "jnull", v |-> "null"]]
RawTexts ==
    {[fmt |-> "json", root |-> JsonNode(v)] : v \in RootValues}
    \cup {[fmt |-> "yaml", root |-> YamlNode(v)] : v \in RootValues \cup YamlOnlyValues}
    \cup {BadText, BlankText}

\* The texts submitted to the raw editors of the Layout Editor.
EditorValues ==
    {PDict([devices |-> dv]) :
        dv \in {PList(<<DevFull("a", PList(<<CtlFull("c"), CtlFull("c")>>))>>),
                PList(<<DevFull("a", PList(<<CtlFull("")>>))>>),
                PList(<<DevNoId(PList(<<CtlNoId>>))>>),
                PList(<<DevNoName>>),
                PList(<<DevFull("a", PStr("x"))>>),
                PNone, PInt("0"), PStr("x"), PList(<<>>)}}
EditorTexts ==
    {[fmt |-> "json", root |-> JsonNode(v)] : v \in EditorValues}
    \cup {[fmt |-> "yaml", root |-> YamlNode(v)] : v \in YamlOnlyValues}
    \cup {BadText, BlankText}

\* What the user types into the forms of the visual editor.
DeviceInputs == {[name |-> PStr(n), icon |-> PStr("mdi:power")] : n \in {"N", "M"}}
ControlInputs == {[label |-> PStr("L"), type |-> PStr(t), entity |-> PStr("light.x")] :
                     t \in {"switch", "slider", "select"}}
SliderInputs == {[min |-> PInt("0"), max |-> PInt("1"), step |-> PInt("1"),
                  attribute |-> PStr("state")]}
SelectInputs == {[options |-> PStr(o)] : o \in {"A, B", "A\nB", "A\n B"}}

\* --------------------------------------------------------------- variables
VARIABLES
    pin,      \* Layout Model check: the raw text under test
    pstage,   \* Layout Model check: "input", then "applied"
    pout,     \* Layout Model check: what the applied function gave
    heap,                \* the list and dict objects of the layouts
    entry_options,       \* config_entry.options: devices, raw_yaml, raw_json
    options,             \* MeshPanelOptionsFlowHandler.options
    step,                \* step_id of the form the flow shows; "closed": no flow
    current_device_id,   \* MeshPanelOptionsFlowHandler.current_device_id
    current_control_id,  \* MeshPanelOptionsFlowHandler.current_control_id
    control_data,        \* MeshPanelOptionsFlowHandler.control_data
    nextId,              \* number of the next uuid.uuid4()
    opened,              \* history: the committed layout when the flow was opened
    last,                \* history: the last handler run and how it ended
    submitted,           \* history: the number of handler runs so far
    variant,             \* bridge: "mesh_panel" or "smart_panel"
    b_options,           \* bridge: the options of the panel's config entry
    b_loaded,            \* bridge: Home Assistant has the entry set up
    b_reload,            \* bridge: the update listener has a reload to run
    instances,           \* bridge: the bridge objects something still refers to
    hass_data,           \* bridge: hass.data[DOMAIN][entry_id], 0 when absent
    deleted,             \* history: the entities only the deleted device had
    relay,               \* history: the last state change and who published it
    handled,             \* history: who handled the last action message
    b_pc,                \* bridge: how far the running reload is; "idle": none runs
    gap,                 \* history: a state change the running reload left unpublished
    cin,      \* codec check: the action message or state event under test
    cstage,   \* codec check: "input", then "applied"
    cout,     \* codec check: what the handler did with it
    hass_states,     \* bridge start: hass.states, the state of each known entity
    started,         \* bridge start: what the last start of the bridge did
    retained_ui,     \* bridge start: the retained message on the ui topic
    config_entries,  \* discovery: the unique ids of the entries, in order
    flows,           \* discovery: the config flows in progress
    announce,        \* history: the last announce message and how it was handled
    subscribed,      \* discovery: the topics a discovery listener is subscribed to
    inbox,           \* dispatch: the action messages whose handler has not run yet
    received,        \* dispatch: the number of action messages received
    issued,          \* dispatch: the service calls made, in order
    running,         \* dispatch: the messages whose call the backend still executes
    finished         \* dispatch: the messages whose handler has returned

pvars == <<pin, pstage, pout>>
evars == <<heap, entry_options, options, step, current_device_id, current_control_id,
           control_data, nextId, opened, last, submitted>>
bvars == <<variant, b_options, b_loaded, b_reload, instances, hass_data, deleted, relay,
           handled, b_pc, gap>>
cvars == <<cin, cstage, cout>>
svars == <<hass_states, started, retained_ui>>
dvars == <<config_entries, flows, announce, subscribed>>
qvars == <<inbox, received, issued, running, finished>>
xvars == <<svars, dvars, qvars>>
vars == <<pin, pstage, pout, heap, entry_options, options, step, current_device_id,
          current_control_id, control_data, nextId, opened, last, submitted, variant, b_options,
          b_loaded, b_reload, instances, hass_data, deleted, relay, handled, b_pc, gap,
          cin, cstage, cout, hass_states, started, retained_ui, config_entries, flows,
          announce, subscribed, inbox, received, issued, running, finished>>

\* ----------------------------------------- Layout Model: the pure functions
NoOut == [op |-> "none", exc |-> "none", before |-> PNone, once |-> PNone, twice |-> PNone]

\* Codec check: nothing under test, nothing done.
NoIn == [what |-> "none"]
NoDone == [op |-> "none", exc |-> "none", calls |-> <<>>, published |-> <<>>,
           logged |-> FALSE]
CIdle ==
    /\ cin = NoIn
    /\ cstage = "input"
    /\ cout = NoDone

\* Bridge start: no bridge was started and nothing is retained.
NoBridge == [op |-> "none"]
SIdle ==
    /\ hass_states = EmptyF
    /\ started = NoBridge
    /\ retained_ui = <<>>
\* Discovery: no entry, no flow, no announce message yet.  async_setup
\* (mesh_panel/__init__.py, lines 13-16) subscribes to nothing, and nothing
\* calls async_setup_global_discovery.
NoAnnounce == [n |-> 0, payload |-> PNone, exc |-> "none", logged |-> FALSE]
DIdle ==
    /\ config_entries = <<>>
    /\ flows = <<>>
    /\ announce = NoAnnounce
    /\ subscribed = {}
\* Dispatch: no action message yet.
QIdle ==
    /\ inbox = <<>>
    /\ received = 0
    /\ issued = <<>>
    /\ running = {}
    /\ finished = {}

\* ------------------------------------------------------------ the bridges
\* A layout as the bridges read it: the devices in order, each with its
\* state_entity ("none": the key is absent) and the entities of its controls.
DevLiving == [state_entity |-> "sensor.living_room_temperature",
              controls |-> <<"light.living_room_main", "light.living_room_main",
                             "light.living_room_main">>]
DevA == [state_entity |-> "none", controls |-> <<"light.a">>]
DevB == [state_entity |-> "sensor.b", controls |-> <<"light.a", "light.b">>]
DevMain == [state_entity |-> "none", controls |-> <<"light.living_room_main">>]
BridgeDevices == {DevA, DevB, DevMain}
BridgeLayouts ==
    {<<>>} \cup {<<d>> : d \in BridgeDevices}
    \cup {<<p[1], p[2]>> : p \in {q \in BridgeDevices \X BridgeDevices : q[1] # q[2]}}
BridgeEntities == {"light.a", "light.b", "sensor.b", "light.living_room_main",
                   "sensor.living_room_temperature"}
\* const.py:8-22
DEFAULT_LAYOUT == <<DevLiving>>
\* An option of the entry: whether the key is there, and the layout its
\* text spells out.
Unset == [set |-> FALSE, v |-> <<>>]
\* The options the config flows create: MeshPanelConfigFlow writes devices
\* and the two raw texts, SmartPanelConfigFlow writes no options.
NewBridgeOptions == [layout_config |-> Unset, devices |-> <<>>, manual_config |-> Unset]

\* MeshPanelManager.async_setup, lines 52-61: the entities to watch.
entities_to_watch(devices) ==
    UNION {{devices[i].state_entity} \ {"none", ""} : i \in 1..Len(devices)}
    \cup UNION {{devices[i].controls[j] : j \in 1..Len(devices[i].controls)} \ {""} :
                   i \in 1..Len(devices)}
\* SmartPanelController.start, lines 56-62.
watched_entities(devices_config) ==
    IF devices_config = <<>> THEN {}
    ELSE UNION {{devices_config[i].state_entity} \ {"none"} : i \in 1..Len(devices_config)}
         \cup UNION {{devices_config[i].controls[j] :
                          j \in 1..Len(devices_config[i].controls)} :
                        i \in 1..Len(devices_config)}

\* A bridge object: the entities it watches, whether its subscription to
\* the action topic is live, whether its state-change listener is live.
\* MeshPanelManager(hass, entry) followed by async_setup().
MeshPanelManager(opts) ==
    Only({[watch |-> entities_to_watch(layout_raw), mqtt |-> TRUE,
           state |-> entities_to_watch(layout_raw) # {}] :
             layout_raw \in {IF opts.layout_config.set THEN opts.layout_config.v
                             ELSE DEFAULT_LAYOUT}})
\* smart_panel async_setup_entry, lines 18-30: SmartPanelController(...)
\* followed by start().
SmartPanelController(opts) ==
    Only({[watch |-> watched_entities(devices_data), mqtt |-> TRUE,
           state |-> watched_entities(devices_data) # {}] :
             devices_data \in {IF opts.manual_config.set THEN opts.manual_config.v
                               ELSE <<>>}})

\* No reload has run: the watch sets before and after it, the entity whose
\* last change nobody published, whether a change of it is lost for good.
NoGap == [entity |-> "none", lost |-> FALSE, old |-> {}, new |-> {}]

\* No entry is set up yet.
BIdle ==
    /\ variant = "mesh_panel"
    /\ b_options = NewBridgeOptions
    /\ b_loaded = FALSE
    /\ b_reload = FALSE
    /\ instances = <<>>
    /\ hass_data = 0
    /\ deleted = {}
    /\ relay = [entity |-> "none", by |-> {}]
    /\ handled = {}
    /\ b_pc = "idle"
    /\ gap = NoGap

\* The entry MeshPanelConfigFlow creates: no devices, both texts in sync.
NewEntryOptions == [devices |-> Ref(1), raw_yaml |-> _pretty_yaml(PList(<<>>)),
                    raw_json |-> _pretty_json(PList(<<>>))]
EInit ==
    /\ heap = [EmptyHeap EXCEPT ![1] = [k |-> "list", v |-> <<>>]]
    /\ entry_options = NewEntryOptions
    /\ options = NewEntryOptions
    /\ step = "closed"
    /\ current_device_id = PNone
    /\ current_control_id = PNone
    /\ control_data = PNone
    /\ nextId = 1
    /\ opened = PNone
    /\ last = [op |-> "none", result |-> "none", raw_text |-> NoRawText]
    /\ submitted = 0

PInit ==
    /\ pin \in RawTexts
    /\ pstage = "input"
    /\ pout = NoOut
    /\ EInit
    /\ BIdle
    /\ CIdle
    /\ SIdle /\ DIdle /\ QIdle

\* _parse_raw_to_devices(pin) on a heap of its own.
PParse ==
    /\ pstage = "input"
    /\ \E r \in {_parse_raw_to_devices(EmptyHeap, pin, 1)} :
          pout' = [NoOut EXCEPT !.op = "parse", !.exc = r.exc,
                                !.once = Snapshot(r.h, r.devices)]
    /\ pstage' = "applied"
    /\ UNCHANGED pin
    /\ UNCHANGED evars
    /\ UNCHANGED bvars
    /\ UNCHANGED <<cvars, xvars>>

\* _ensure_ids applied to the devices value the text spells out, and then to
\* its own result.
PEnsureIds ==
    /\ pstage = "input"
    /\ pin.fmt \in {"json", "yaml"}
    /\ pin.root.k \in {"jobj", "ymap"}
    /\ CONF_DEVICES \in DOMAIN pin.root.v
    /\ \E ld \in {LoadNode(EmptyHeap, pin.root.v[CONF_DEVICES])} :
       \E r1 \in {_ensure_ids(ld.h, ld.item, 1)} :
       \E r2 \in {_ensure_ids(r1.h, ld.item, r1.nid)} :
          pout' = [op |-> "ensure_ids",
                   exc |-> IF r1.exc # "none" THEN r1.exc ELSE r2.exc,
                   before |-> Snapshot(ld.h, ld.item),
                   once |-> Snapshot(r1.h, ld.item),
                   twice |-> Snapshot(r2.h, ld.item)]
    /\ pstage' = "applied"
    /\ UNCHANGED pin
    /\ UNCHANGED evars
    /\ UNCHANGED bvars
    /\ UNCHANGED <<cvars, xvars>>

\* parse(serialize(L)) for the layout L the text parses to.
RoundTrip(fmt) ==
    /\ pstage = "input"
    /\ \E r \in {_parse_raw_to_devices(EmptyHeap, pin, 1)} :
       /\ r.exc = "none"
       /\ \E L \in {Snapshot(r.h, r.devices)} :
          \E text \in {IF fmt = "json" THEN _pretty_json(L) ELSE _pretty_yaml(L)} :
          \E back \in {_parse_raw_to_devices(EmptyHeap, text, r.nid)} :
             pout' = [op |-> fmt, exc |-> back.exc, before |-> L,
                      once |-> Snapshot(back.h, back.devices), twice |-> PNone]
    /\ pstage' = "applied"
    /\ UNCHANGED pin
    /\ UNCHANGED evars
    /\ UNCHANGED bvars
    /\ UNCHANGED <<cvars, xvars>>
PRoundTripJson == RoundTrip("json")
PRoundTripYaml == RoundTrip("yaml")

PNext == PParse \/ PEnsureIds \/ PRoundTripJson \/ PRoundTripYaml
SpecLayoutModel == PInit /\ [][PNext]_vars

\* ----------------------------------------------------------- Layout Editor
\* The flow handler and the entry it edits, as one value the handlers
\* transform: h the heap, entry config_entry.options, options self.options,
\* step the form shown, cd/cc the current device and control id, ctl
\* self.control_data, nid the next uuid, result how the handler ended.
Cur == [h |-> heap, entry |-> entry_options, options |-> options, step |-> step,
        cd |-> current_device_id, cc |-> current_control_id, ctl |-> control_data,
        nid |-> nextId, result |-> "form"]

\* user_input=None
None == EmptyF
\* self.async_show_form(step_id=id, ...)
async_show_form(s, id) == [s EXCEPT !.step = id, !.result = "form"]
\* self.async_create_entry(title="", data=self.options): Home Assistant
\* stores data as the entry's options and ends the flow.
async_create_entry(s) ==
    [s EXCEPT !.entry = s.options, !.step = "closed", !.result = "create_entry"]

\* first index of the dict with the given id in a list of dicts, 0 if none:
\* next((d for d in items if d[CONF_ID] == id), ...)
FindId(h, items, id) ==
    IF \E i \in 1..Len(items) : h[items[i].v].v[CONF_ID] = id
    THEN CHOOSE i \in 1..Len(items) :
            /\ h[items[i].v].v[CONF_ID] = id
            /\ \A j \in 1..(i - 1) : h[items[j].v].v[CONF_ID] # id
    ELSE 0
\* the items of self.options.get(CONF_DEVICES, [])
DevItems(s) == s.h[s.options.devices.v].v
\* index of the current device in the working layout, 0 if none
CurDev(s) == FindId(s.h, DevItems(s), s.cd)
\* device.get(CONF_CONTROLS, []) of the current device, device being {} if
\* there is none
CurControls(s) ==
    IF CurDev(s) = 0 THEN <<>>
    ELSE s.h[s.h[DevItems(s)[CurDev(s)].v].v[CONF_CONTROLS].v].v

\* self.options[CONF_DEVICES] = _ensure_ids(devices)
EnsureOptions(s) ==
    Only({[s EXCEPT !.h = e.h, !.nid = e.nid] :
             e \in {_ensure_ids(s.h, s.options.devices, s.nid)}})

_sync_raw_from_devices(s) ==
    Only({[y EXCEPT !.options =
              [devices |-> y.options.devices,
               raw_yaml |-> Only({_pretty_yaml(L) : L \in {Snapshot(y.h, y.options.devices)}}),
               raw_json |-> Only({_pretty_json(L) : L \in {Snapshot(y.h, y.options.devices)}})]] :
             y \in {EnsureOptions(s)}})

\* __init__: dict(config_entry.options) copies the three keys, not the
\* devices list they name; control_data is a new dict.
__init__(s) ==
    Only({[s EXCEPT !.h = f.h, !.options = s.entry, !.cd = PNone, !.cc = PNone,
                    !.ctl = f.item] :
             f \in {New(s.h, [k |-> "dict", v |-> EmptyF])}})

async_step_init(s, action) ==
    Only({IF action = "visual" THEN async_show_form(y, "visual")
          ELSE IF action = "yaml" THEN async_show_form(y, "yaml_editor")
          ELSE IF action = "json" THEN async_show_form(y, "json_editor")
          ELSE async_show_form(y, "init") :
             y \in {_sync_raw_from_devices(s)}})

async_step_visual(s, action) ==
    IF action = "None" THEN async_show_form(s, "visual")
    ELSE IF action = "add" THEN async_show_form([s EXCEPT !.cd = PNone], "device")
    ELSE IF action = "done"
         THEN Only({async_create_entry(y) : y \in {_sync_raw_from_devices(s)}})
         ELSE async_show_form([s EXCEPT !.cd = PStr(action)], "device_menu")

\* devices = [d for d in ... if d[CONF_ID] != self.current_device_id]
WithoutId(h, items, id) == SelectSeq(items, LAMBDA d : h[d.v].v[CONF_ID] # id)

async_step_device_menu(s, action) ==
    IF action = "edit" THEN async_show_form(s, "device")
    ELSE IF action = "delete"
         THEN Only({async_show_form([s EXCEPT !.h = f.h, !.options.devices = f.item], "visual") :
                       f \in {New(s.h, [k |-> "list", v |-> WithoutId(s.h, DevItems(s), s.cd)])}})
    ELSE IF action = "controls" THEN async_show_form(s, "controls")
    ELSE IF action = "back" THEN async_show_form(s, "visual")
    ELSE async_show_form(s, "device_menu")

\* items[i] = {**d, **update}: a new dict takes the place of d in the list
\* object at address a.
Merge(h, a, i, update) ==
    IF i = 0 THEN h
    ELSE Only({[f.h EXCEPT ![a].v[i] = f.item] :
                  f \in {New(h, [k |-> "dict", v |-> update @@ h[h[a].v[i].v].v])}})

async_step_device(s, user_input) ==
    IF DOMAIN user_input = {} THEN async_show_form(s, "device")
    ELSE IF s.cd # PNone
         THEN Only({async_show_form(EnsureOptions([s EXCEPT !.h = h1]), "device_menu") :
                       h1 \in {Merge(s.h, s.options.devices.v, CurDev(s), user_input)}})
         ELSE Only({Only({async_show_form(
                             EnsureOptions([s EXCEPT
                                 !.h = [d.h EXCEPT ![s.options.devices.v].v = Append(@, d.item)],
                                 !.nid = s.nid + 1, !.cd = Uuid(s.nid)]),
                             "controls") :
                            d \in {New(c.h, [k |-> "dict",
                                             v |-> (CONF_ID :> Uuid(s.nid)) @@
                                                   (CONF_CONTROLS :> c.item) @@ user_input])}}) :
                       c \in {New(s.h, [k |-> "list", v |-> <<>>])}})

async_step_controls(s, action) ==
    IF action = "None" THEN async_show_form(s, "controls")
    ELSE IF action = "add"
         THEN Only({async_show_form([s EXCEPT !.h = f.h, !.cc = PNone, !.ctl = f.item],
                                    "control") :
                       f \in {New(s.h, [k |-> "dict", v |-> EmptyF])}})
    ELSE IF action = "back" THEN async_show_form(s, "device_menu")
    ELSE async_show_form([s EXCEPT !.cc = PStr(action)], "control_menu")

\* async_step_control, lines 313-316: with a truthy current_control_id,
\* control_data becomes the control's own dict, {} if there is none.
ControlLookup(s) ==
    IF Falsy(s.h, s.cc) THEN s
    ELSE IF FindId(s.h, CurControls(s), s.cc) = 0
         THEN Only({[s EXCEPT !.h = f.h, !.ctl = f.item] :
                       f \in {New(s.h, [k |-> "dict", v |-> EmptyF])}})
         ELSE [s EXCEPT !.ctl = CurControls(s)[FindId(s.h, CurControls(s), s.cc)]]

\* self.control_data.update(user_input)
ControlUpdate(s, user_input) == [s EXCEPT !.h[s.ctl.v].v = user_input @@ @]

\* "," in opts, "\n" in opts, opts.split(","), o.strip() and "\n".join on
\* the option texts of the model.
CommaTexts == {"A, B"}
NewlineTexts == {"A\nB", "A\n B"}
Split(o) == IF o = "A, B" THEN <<"A", " B">> ELSE <<o>>
Strip(o) == IF o = " B" THEN "B" ELSE IF o = " p1 " THEN "p1" ELSE o
RECURSIVE Join(_)
Join(parts) ==
    IF parts = <<>> THEN ""
    ELSE IF Len(parts) = 1 THEN parts[1]
         ELSE parts[1] \o "\n" \o Join(Tail(parts))
Stripped(parts) == [i \in 1..Len(parts) |-> Strip(parts[i])]
\* lines 386-392 on the fields of control_data
NormalizeOptions(f) ==
    IF CONF_TYPE \in DOMAIN f /\ f[CONF_TYPE] = PStr("select")
       /\ CONF_OPTIONS \in DOMAIN f /\ f[CONF_OPTIONS].k = "str"
       /\ f[CONF_OPTIONS].v \in CommaTexts /\ f[CONF_OPTIONS].v \notin NewlineTexts
    THEN [f EXCEPT ![CONF_OPTIONS] =
             PStr(Join(SelectSeq(Stripped(Split(f[CONF_OPTIONS].v)), LAMBDA o : o # "")))]
    ELSE f

\* A save that appends the control when no control has the id.
SaveIntoOrAppend(s, a) ==
    IF ~Falsy(s.h, s.cc) /\ FindId(s.h, s.h[a].v, s.cc) # 0
    THEN [s EXCEPT !.h = Merge(s.h, a, FindId(s.h, s.h[a].v, s.cc), s.h[s.ctl.v].v)]
    ELSE [s EXCEPT !.h = [SetDefault(s.h, s.ctl.v, CONF_ID, Uuid(s.nid))
                             EXCEPT ![a].v = Append(@, s.ctl)],
                   !.nid = IF CONF_ID \in DOMAIN s.h[s.ctl.v].v THEN s.nid ELSE s.nid + 1]

\* lines 394-403: the controls list object at address a takes the control.
SaveInto(s, a) ==
    IF ~Falsy(s.h, s.cc)
    THEN [s EXCEPT !.h = Merge(s.h, a, FindId(s.h, s.h[a].v, s.cc), s.h[s.ctl.v].v)]
    ELSE [s EXCEPT !.h = [SetDefault(s.h, s.ctl.v, CONF_ID, Uuid(s.nid))
                             EXCEPT ![a].v = Append(@, s.ctl)],
                   !.nid = IF CONF_ID \in DOMAIN s.h[s.ctl.v].v THEN s.nid ELSE s.nid + 1]

_save_control_and_back_to_controls(s) ==
    IF CurDev(s) = 0 THEN async_show_form(s, "visual")
    ELSE Only({Only({async_show_form(EnsureOptions(y), "controls") :
                        y \in {SaveInto(n, n.h[DevItems(n)[CurDev(n)].v].v[CONF_CONTROLS].v)}}) :
                  n \in {[s EXCEPT !.h[s.ctl.v].v = NormalizeOptions(@)]}})

async_step_control(s, user_input) ==
    IF DOMAIN user_input = {} THEN async_show_form(ControlLookup(s), "control")
    ELSE Only({IF user_input[CONF_TYPE] = PStr("slider") THEN async_show_form(y, "control_slider")
               ELSE IF user_input[CONF_TYPE] = PStr("select")
                    THEN async_show_form(y, "control_select")
                    ELSE _save_control_and_back_to_controls(y) :
                  y \in {ControlUpdate(ControlLookup(s), user_input)}})

async_step_control_slider(s, user_input) ==
    IF DOMAIN user_input = {} THEN async_show_form(s, "control_slider")
    ELSE Only({_save_control_and_back_to_controls(y) : y \in {ControlUpdate(s, user_input)}})

async_step_control_select(s, user_input) ==
    IF DOMAIN user_input = {} THEN async_show_form(s, "control_select")
    ELSE Only({_save_control_and_back_to_controls(y) : y \in {ControlUpdate(s, user_input)}})

\* lines 286-292: the current device gets a new controls list.
DeleteControl(s) ==
    IF CurDev(s) = 0 THEN s
    ELSE Only({[s EXCEPT !.h = [f.h EXCEPT ![DevItems(s)[CurDev(s)].v].v[CONF_CONTROLS] = f.item]] :
                  f \in {New(s.h, [k |-> "list",
                                   v |-> WithoutId(s.h, CurControls(s), s.cc)])}})

async_step_control_menu(s, action) ==
    IF action = "edit" THEN async_show_form(ControlLookup(s), "control")
    ELSE IF action = "delete" THEN async_show_form(DeleteControl(s), "controls")
    ELSE IF action = "back" THEN async_show_form(s, "controls")
    ELSE async_show_form(s, "control_menu")

\* A raw editor that keeps the rejected text as its cached raw text.
SubmitRawKeepsText(s, raw, id) ==
    Only({IF r.exc = "none"
          THEN Only({async_create_entry(y) :
                        y \in {_sync_raw_from_devices(
                                  [s EXCEPT !.h = r.h, !.nid = r.nid,
                                            !.options.devices = r.devices])}})
          ELSE [s EXCEPT !.step = id, !.result = "invalid", !.options.raw_yaml = raw,
                         !.options.raw_json = raw] :
             r \in {_parse_raw_to_devices(s.h, raw, s.nid)}})

\* The try block of both raw editors: parse, adopt, sync, persist; a
\* ValueError shows the form again, any other exception leaves the handler.
SubmitRaw(s, raw, id) ==
    Only({IF r.exc = "none"
          THEN Only({async_create_entry(y) :
                        y \in {_sync_raw_from_devices(
                                  [s EXCEPT !.h = r.h, !.nid = r.nid,
                                            !.options.devices = r.devices])}})
          ELSE IF r.exc = "ValueError"
               THEN [s EXCEPT !.step = id, !.result = "invalid"]
               ELSE [s EXCEPT !.result = r.exc] :
             r \in {_parse_raw_to_devices(s.h, raw, s.nid)}})
async_step_yaml_editor(s, raw) == SubmitRaw(s, raw, "yaml_editor")
async_step_json_editor(s, raw) == SubmitRaw(s, raw, "json_editor")

\* ------------------------------------------------- Layout Editor: actions
\* The ids the menus offer.
IdsOf(h, items) == {h[items[i].v].v[CONF_ID].v : i \in 1..Len(items)}
\* The model's bounds on what a handler leaves behind.
WithinBounds(r) ==
    /\ r.nid <= MaxIds + 1
    /\ Len(DevItems(r)) <= MaxDevices
    /\ \A i \in 1..Len(DevItems(r)) :
          Len(r.h[r.h[DevItems(r)[i].v].v[CONF_CONTROLS].v].v) <= MaxControls
\* The handler is gone once the flow has ended.
Ended(r) ==
    IF r.step = "closed"
    THEN [r EXCEPT !.options = r.entry, !.cd = PNone, !.cc = PNone, !.ctl = PNone]
    ELSE r
\* The state a handler leaves, op naming the handler and raw_text the text
\* it was given, if it is a raw editor.
LeaveWith(r, op, raw_text) ==
    /\ WithinBounds(r)
    /\ \E order \in {Walk(r.h, RefsOf(<<r.entry.devices, r.options.devices, r.ctl>>), <<>>)} :
          /\ heap' = Renumber(r.h, order)
          /\ entry_options' = [r.entry EXCEPT !.devices = Moved(order, @)]
          /\ options' = [r.options EXCEPT !.devices = Moved(order, @)]
          /\ control_data' = Moved(order, r.ctl)
    /\ step' = r.step
    /\ current_device_id' = r.cd
    /\ current_control_id' = r.cc
    /\ nextId' = r.nid
    /\ opened' = IF op = "open" THEN Snapshot(heap, entry_options.devices)
                 ELSE IF r.result = "create_entry" THEN PNone ELSE opened
    /\ last' = [op |-> op, result |-> r.result, raw_text |-> raw_text]
    /\ submitted < MaxSubmits
    /\ submitted' = submitted + 1
    /\ UNCHANGED pvars
    /\ UNCHANGED bvars
    /\ UNCHANGED <<cvars, xvars>>
Leave(r, op) == LeaveWith(r, op, NoRawText)

\* The user opens the options flow: __init__, then async_step_init().
Open ==
    /\ step = "closed"
    /\ \E s \in {__init__(Cur)} : \E r \in {async_step_init(s, "None")} : Leave(r, "open")

\* The user closes the dialog without Done: Home Assistant drops the flow.
Abandon ==
    /\ step # "closed"
    /\ \E r \in {Ended([Cur EXCEPT !.step = "closed", !.result = "abort"])} :
          Leave(r, "abandon")

InitMenu ==
    /\ step = "init"
    /\ \E action \in {"visual", "yaml", "json"} :
       \E r \in {async_step_init(Cur, action)} : Leave(r, "init")

VisualMenu ==
    /\ step = "visual"
    /\ \E action \in {"add", "done"} \cup IdsOf(heap, DevItems(Cur)) :
       \E r \in {Ended(async_step_visual(Cur, action))} : Leave(r, "visual")

DeviceMenu ==
    /\ step = "device_menu"
    /\ \E action \in {"edit", "delete", "controls", "back"} :
       \E r \in {async_step_device_menu(Cur, action)} : Leave(r, "device_menu")

DeviceForm ==
    /\ step = "device"
    /\ \E user_input \in DeviceInputs :
       \E r \in {async_step_device(Cur, user_input)} : Leave(r, "device")

ControlsMenu ==
    /\ step = "controls"
    /\ \E action \in {"add", "back"} \cup IdsOf(heap, CurControls(Cur)) :
       \E r \in {async_step_controls(Cur, action)} : Leave(r, "controls")

ControlMenu ==
    /\ step = "control_menu"
    /\ \E action \in {"edit", "delete", "back"} :
       \E r \in {async_step_control_menu(Cur, action)} : Leave(r, "control_menu")

ControlForm ==
    /\ step = "control"
    /\ \E user_input \in ControlInputs :
       \E r \in {async_step_control(Cur, user_input)} : Leave(r, "control")

ControlSliderForm ==
    /\ step = "control_slider"
    /\ \E user_input \in SliderInputs :
       \E r \in {async_step_control_slider(Cur, user_input)} : Leave(r, "control_slider")

ControlSelectForm ==
    /\ step = "control_select"
    /\ \E user_input \in SelectInputs :
       \E r \in {async_step_control_select(Cur, user_input)} : Leave(r, "control_select")

YamlEditor ==
    /\ step = "yaml_editor"
    /\ \E raw \in EditorTexts :
       \E r \in {Ended(async_step_yaml_editor(Cur, raw))} : LeaveWith(r, "yaml_editor", raw)

JsonEditor ==
    /\ step = "json_editor"
    /\ \E raw \in EditorTexts :
       \E r \in {Ended(async_step_json_editor(Cur, raw))} : LeaveWith(r, "json_editor", raw)

Init ==
    /\ pin = BlankText
    /\ pstage = "input"
    /\ pout = NoOut
    /\ EInit
    /\ BIdle
    /\ CIdle
    /\ SIdle /\ DIdle /\ QIdle

Next ==
    \/ Open
    \/ Abandon
    \/ InitMenu
    \/ VisualMenu
    \/ DeviceMenu
    \/ DeviceForm
    \/ ControlsMenu
    \/ ControlMenu
    \/ ControlForm
    \/ ControlSliderForm
    \/ ControlSelectForm
    \/ YamlEditor
    \/ JsonEditor

Spec == Init /\ [][Next]_vars

\* A second options flow on the same entry, open at the same time.  Its
\* __init__ copies the three keys of config_entry.options (line 106), so its
\* devices list is the entry's own list object.  Its Delete Control (lines
\* 285-291) gives a device of that list a new controls list without the
\* chosen control; the second flow is then closed without Done.
OtherFlowDeletesControl ==
    /\ step # "closed"
    /\ IsList(heap, entry_options.devices)
    /\ \E i \in 1..Len(heap[entry_options.devices.v].v) :
       \E b \in {[Cur EXCEPT !.options = entry_options,
                              !.cd = heap[heap[entry_options.devices.v].v[i].v].v[CONF_ID]]} :
       \E id \in IdsOf(heap, CurControls(b)) :
       \E d \in {DeleteControl([b EXCEPT !.cc = PStr(id)])} :
          Leave([Cur EXCEPT !.h = d.h], "other_flow")

NextTwoFlows == Next \/ OtherFlowDeletesControl
SpecTwoFlows == Init /\ [][NextTwoFlows]_vars

\* ------------------------------------------------------- bridge lifecycle
\* The bridge objects a subscription still refers to; the others are freed.
Live(objs) == SelectSeq(objs, LAMBDA b : b.mqtt \/ b.state)
\* the place of object i among the live ones
LivePlace(objs, i) == Len(Live(SubSeq(objs, 1, i)))

\* async_setup_entry of the variant: a new bridge object, started and put
\* in hass.data.
SetUp(objs) ==
    Append(objs, IF variant = "mesh_panel" THEN MeshPanelManager(b_options)
                 ELSE SmartPanelController(b_options))
\* async_unload_entry of the variant: mesh_panel pops the manager and calls
\* async_unload, which ends both subscriptions; smart_panel returns True.
TearDown(objs) ==
    IF variant = "mesh_panel"
    THEN [objs EXCEPT ![hass_data] = [@ EXCEPT !.mqtt = FALSE, !.state = FALSE]]
    ELSE objs

BStay == UNCHANGED <<pvars, evars, cvars, xvars>>
Quiet == relay' = [entity |-> "none", by |-> {}] /\ handled' = {}

async_setup_entry ==
    /\ ~b_loaded
    /\ b_pc = "idle"
    /\ Len(instances) < MaxInstances
    /\ instances' = SetUp(instances)
    /\ hass_data' = Len(instances) + 1
    /\ b_loaded' = TRUE
    /\ b_reload' = FALSE
    /\ Quiet
    /\ UNCHANGED <<variant, b_options, deleted, b_pc, gap>>
    /\ BStay

async_unload_entry ==
    /\ b_loaded
    /\ b_pc = "idle"
    /\ \E objs \in {TearDown(instances)} :
          /\ instances' = Live(objs)
          /\ hass_data' = IF variant = "mesh_panel" THEN 0 ELSE LivePlace(objs, hass_data)
    /\ b_loaded' = FALSE
    /\ b_reload' = FALSE
    /\ Quiet
    /\ UNCHANGED <<variant, b_options, deleted, b_pc, gap>>
    /\ BStay

\* update_listener / async_reload_entry: hass.config_entries.async_reload
\* unloads the entry and sets it up again.  The setup awaits the message
\* bus twice (the subscription to the action topic, the publish of the UI),
\* so the reload runs in three steps and events arrive between them.
\* First step: async_unload_entry of the variant.
ReloadUnload ==
    /\ b_loaded
    /\ b_pc = "idle"
    /\ Len(Live(TearDown(instances))) < MaxInstances
    /\ \E objs \in {TearDown(instances)} :
          /\ instances' = Live(objs)
          /\ hass_data' = IF variant = "mesh_panel" THEN 0 ELSE LivePlace(objs, hass_data)
    /\ b_pc' = "unloaded"
    /\ gap' = [NoGap EXCEPT !.old = instances[hass_data].watch]
    /\ Quiet
    /\ UNCHANGED <<variant, b_options, b_loaded, b_reload, deleted>>
    /\ BStay

\* Second step: async_setup_entry builds the bridge object from the options
\* it reads now and subscribes it to the action topic and to the state
\* changes; mesh_panel has put it in hass.data before.
ReloadSetup ==
    /\ b_pc = "unloaded"
    /\ instances' = SetUp(instances)
    /\ hass_data' = IF variant = "mesh_panel" THEN Len(instances) + 1 ELSE hass_data
    /\ b_reload' = FALSE
    /\ b_pc' = "subscribed"
    /\ gap' = [gap EXCEPT !.new = SetUp(instances)[Len(instances) + 1].watch]
    /\ Quiet
    /\ UNCHANGED <<variant, b_options, b_loaded, deleted>>
    /\ BStay

\* Last step: the UI is published; mesh_panel pushes the current state of
\* every entity it watches, smart_panel puts the controller in hass.data.
ReloadDone ==
    /\ b_pc = "subscribed"
    /\ hass_data' = Len(instances)
    /\ b_pc' = "idle"
    /\ gap' = IF gap.entity = "none" THEN gap
              ELSE IF /\ variant = "mesh_panel"
                      /\ gap.entity \in instances[Len(instances)].watch
                      /\ ~gap.lost
                   THEN [gap EXCEPT !.entity = "none"]
                   ELSE [gap EXCEPT !.lost = TRUE]
    /\ Quiet
    /\ UNCHANGED <<variant, b_options, b_loaded, b_reload, instances, deleted>>
    /\ BStay

\* The layout the options flow of the variant edits.
Stored == IF variant = "mesh_panel" THEN b_options.devices
          ELSE IF b_options.manual_config.set THEN b_options.manual_config.v ELSE <<>>
\* the entities of a layout
EntitiesOf(L) ==
    UNION {({L[i].state_entity} \ {"none"}) \cup {L[i].controls[j] : j \in 1..Len(L[i].controls)} :
              i \in 1..Len(L)}
\* L without its i-th device
Without(L, i) == SubSeq(L, 1, i - 1) \o SubSeq(L, i + 1, Len(L))

\* The options flow of the variant persists a layout: async_create_entry
\* stores the options and Home Assistant calls the update listener of a
\* loaded entry.
PersistLayout ==
    /\ \E L \in BridgeLayouts :
          /\ L # Stored
          /\ b_options' = IF variant = "mesh_panel" THEN [b_options EXCEPT !.devices = L]
                          ELSE [b_options EXCEPT !.manual_config = [set |-> TRUE, v |-> L]]
          /\ deleted' = IF \E i \in 1..Len(Stored) : L = Without(Stored, i)
                        THEN EntitiesOf(Stored) \ EntitiesOf(L) ELSE {}
    /\ b_reload' = b_loaded
    /\ Quiet
    /\ UNCHANGED <<variant, b_loaded, instances, hass_data, b_pc, gap>>
    /\ BStay

\* What a state change of entity e, published by the listeners in by, does
\* to the history of the running reload: a change of an entity of the old
\* watch set that nobody publishes is remembered; the next change of the
\* entity leaves it unpublished for good.
GapAfter(e, by) ==
    IF b_pc = "idle" \/ e \notin gap.old THEN gap
    ELSE IF gap.entity = e THEN [gap EXCEPT !.lost = TRUE]
    ELSE IF gap.entity = "none" /\ by = {} THEN [gap EXCEPT !.entity = e]
    ELSE gap

\* The state machine of Home Assistant reports a new state of an entity:
\* every live listener that tracks the entity runs _handle_state_event /
\* handle_ha_state_change, which publishes the state.
StateChange ==
    /\ \E e \in BridgeEntities :
       \E by \in {{i \in 1..Len(instances) : instances[i].state /\ e \in instances[i].watch}} :
          /\ relay' = [entity |-> e, by |-> by]
          /\ gap' = GapAfter(e, by)
    /\ handled' = {}
    /\ UNCHANGED <<variant, b_options, b_loaded, b_reload, instances, hass_data, deleted, b_pc>>
    /\ BStay

\* The panel publishes on its action topic: every live subscription runs
\* _handle_action / handle_action.
ActionMessage ==
    /\ handled' = {i \in 1..Len(instances) : instances[i].mqtt}
    /\ relay' = [entity |-> "none", by |-> {}]
    /\ UNCHANGED <<variant, b_options, b_loaded, b_reload, instances, hass_data, deleted,
                   b_pc, gap>>
    /\ BStay

BInit ==
    /\ pin = BlankText
    /\ pstage = "input"
    /\ pout = NoOut
    /\ EInit
    /\ CIdle
    /\ SIdle /\ DIdle /\ QIdle
    /\ variant \in {"mesh_panel", "smart_panel"}
    /\ b_options = NewBridgeOptions
    /\ b_loaded = FALSE
    /\ b_reload = FALSE
    /\ instances = <<>>
    /\ hass_data = 0
    /\ deleted = {}
    /\ relay = [entity |-> "none", by |-> {}]
    /\ handled = {}
    /\ b_pc = "idle"
    /\ gap = NoGap

BNext ==
    \/ async_setup_entry
    \/ async_unload_entry
    \/ ReloadUnload
    \/ ReloadSetup
    \/ ReloadDone
    \/ PersistLayout
    \/ StateChange
    \/ ActionMessage

SpecBridge == BInit /\ [][BNext]_vars

\* ------------------------------------------------------------- the codecs
\* homeassistant.const and homeassistant.components.light
SERVICE_TURN_ON == "turn_on"
SERVICE_TURN_OFF == "turn_off"
ATTR_ENTITY_ID == "entity_id"
ATTR_BRIGHTNESS == "brightness"
ATTR_RGB_COLOR == "rgb_color"

\* Python values of the codecs.  An int has its number as v; a float is
\* written by its number of hundredths, so PFloat(50) is 0.5; a list or a
\* dict is its value (the codecs mutate none they share).
PFloat(h) == [k |-> "float", v |-> h]
\* the number of hundredths of an int or float
Hundredths(x) == IF x.k = "int" THEN x.v * 100 ELSE x.v
\* `not x`
not(x) ==
    CASE x.k = "none" -> TRUE
      [] x.k = "str" -> x.v = ""
      [] x.k \in {"int", "float"} -> x.v = 0
      [] x.k = "list" -> x.v = <<>>
      [] x.k = "dict" -> DOMAIN x.v = {}
      [] OTHER -> FALSE
\* int(x): an int is itself, a float is truncated, a str is read as a
\* decimal number, anything else is a TypeError.
int(x) ==
    CASE x.k = "int" -> [exc |-> "none", v |-> x.v]
      [] x.k = "float" -> [exc |-> "none", v |-> x.v \div 100]
      [] x.k = "str" -> IF x.v = "7" THEN [exc |-> "none", v |-> 7]
                        ELSE [exc |-> "ValueError", v |-> 0]
      [] OTHER -> [exc |-> "TypeError", v |-> 0]
\* The hundredths h for which the double h/100 times 100 is below h, so that
\* int() of the product is h - 1.
RoundsBelow == {29, 57, 58}
\* int(f * 100) for the float of h hundredths
TimesHundred(h) == IF h \in RoundsBelow THEN h - 1 ELSE h
\* int(float(x) * 100)
IntFloatTimesHundred(x) ==
    CASE x.k = "float" -> [exc |-> "none", v |-> TimesHundred(x.v)]
      [] x.k = "int" -> [exc |-> "none", v |-> x.v * 100]
      [] x.k = "str" -> IF x.v = "7" THEN [exc |-> "none", v |-> 700]
                        ELSE [exc |-> "ValueError", v |-> 0]
      [] OTHER -> [exc |-> "TypeError", v |-> 0]
\* int(x * 100): a str or list is repeated a hundred times before int()
\* sees it.
IntTimesHundred(x) ==
    CASE x.k = "float" -> [exc |-> "none", v |-> TimesHundred(x.v)]
      [] x.k = "int" -> [exc |-> "none", v |-> x.v * 100]
      [] x.k = "str" -> [exc |-> "ValueError", v |-> 0]
      [] OTHER -> [exc |-> "TypeError", v |-> 0]
\* str(x).lower() == "on"
LowerIsOn(x) == x.k = "str" /\ x.v \in {"on", "ON", "On", "oN"}
\* entity_id.split(".")[0] for the texts of the model
FirstPart ==
    [t \in {"light.x", "fan.x", "cover.x", "number.x", "input_number.x",
            "media_player.y", "climate.z", "select.s", "input_select.s", "switch.w",
            "nodot", ""} |->
        CASE t = "light.x" -> "light"
          [] t = "fan.x" -> "fan"
          [] t = "cover.x" -> "cover"
          [] t = "number.x" -> "number"
          [] t = "input_number.x" -> "input_number"
          [] t = "media_player.y" -> "media_player"
          [] t = "climate.z" -> "climate"
          [] t = "select.s" -> "select"
          [] t = "input_select.s" -> "input_select"
          [] t = "switch.w" -> "switch"
          [] OTHER -> t]
\* data.get(key)
Get(data, key) == IF key \in DOMAIN data.v THEN data.v[key] ELSE PNone

\* How a handler ends: the exception that leaves it, the service calls it
\* made, whether it wrote to the log.
Returned == [exc |-> "none", calls |-> <<>>, logged |-> FALSE]
Raised(e) == [exc |-> e, calls |-> <<>>, logged |-> FALSE]
Logged == [exc |-> "none", calls |-> <<>>, logged |-> TRUE]
\* service = None
NoService == "None"
Plan(service, service_data) ==
    [exc |-> "none", service |-> service, service_data |-> service_data]
PlanRaised(e) == [exc |-> e, service |-> NoService, service_data |-> EmptyF]
\* hass.services.async_call(domain, service, service_data): the call is
\* made; a backend that rejects it (ok is false) raises.
async_call(domain, service, service_data, ok) ==
    [exc |-> IF ok THEN "none" ELSE "ServiceNotFound",
     calls |-> <<[domain |-> domain, service |-> service, service_data |-> service_data]>>,
     logged |-> FALSE]

\* A value branch that forgets the domain: turn_on with the number as value.
MeshPlanValueAnyDomain(domain, sd, val) ==
    Plan(SERVICE_TURN_ON, ("value" :> PInt(val)) @@ sd)

\* MeshPanelManager._handle_action, lines 105-142: the service and its data.
MeshPlanValue(domain, sd, val) ==
    CASE domain = "light" -> Plan(SERVICE_TURN_ON, (ATTR_BRIGHTNESS :> PInt(val)) @@ sd)
      [] domain = "fan" -> Plan(SERVICE_TURN_ON, ("percentage" :> PInt(val)) @@ sd)
      [] domain = "cover" -> Plan("set_cover_position", ("position" :> PInt(val)) @@ sd)
      [] domain \in {"number", "input_number"} ->
            Plan("set_value", ("value" :> PInt(val)) @@ sd)
      [] domain = "media_player" ->
            Plan("volume_set", ("volume_level" :> PFloat(val)) @@ sd)
      [] OTHER -> Plan(NoService, sd)
\* A handler that looks at value before state.
MeshPlanValueFirst(data, domain, entity_id) ==
    LET sd == (ATTR_ENTITY_ID :> entity_id) IN
    IF "value" \in DOMAIN data.v
    THEN LET val == int(data.v["value"]) IN
         IF val.exc # "none" THEN PlanRaised(val.exc) ELSE MeshPlanValue(domain, sd, val.v)
    ELSE IF "state" \in DOMAIN data.v
    THEN Plan(IF LowerIsOn(data.v["state"]) THEN SERVICE_TURN_ON ELSE SERVICE_TURN_OFF, sd)
    ELSE Plan(NoService, sd)

MeshPlan(data, domain, entity_id) ==
    LET sd == (ATTR_ENTITY_ID :> entity_id) IN
    IF "state" \in DOMAIN data.v
    THEN Plan(IF LowerIsOn(data.v["state"]) THEN SERVICE_TURN_ON ELSE SERVICE_TURN_OFF, sd)
    ELSE IF "value" \in DOMAIN data.v
    THEN LET val == int(data.v["value"]) IN
         IF val.exc # "none" THEN PlanRaised(val.exc) ELSE MeshPlanValue(domain, sd, val.v)
    ELSE IF "rgb_color" \in DOMAIN data.v
    THEN IF domain = "light"
         THEN Plan(SERVICE_TURN_ON, (ATTR_RGB_COLOR :> data.v["rgb_color"]) @@ sd)
         ELSE Plan(NoService, sd)
    ELSE IF "option" \in DOMAIN data.v
    THEN IF domain \in {"select", "input_select"}
         THEN Plan("select_option", ("option" :> data.v["option"]) @@ sd)
         ELSE IF domain = "media_player"
         THEN Plan("select_source", ("source" :> data.v["option"]) @@ sd)
         ELSE Plan(NoService, sd)
    ELSE Plan(NoService, sd)

\* MeshPanelManager._handle_action(msg): only json.loads is inside the try,
\* and its except returns without a word.
_handle_action(msg, ok) ==
    IF msg.text = "bad" THEN Returned
    ELSE LET data == IF msg.text = "empty" THEN PDict(EmptyF) ELSE msg.v IN
         IF data.k # "dict" THEN Raised("AttributeError")
         ELSE LET entity_id == Get(data, "id") IN
              IF not(entity_id) THEN Returned
              ELSE IF entity_id.k # "str" THEN Raised("AttributeError")
              ELSE LET domain == FirstPart[entity_id.v]
                       plan == MeshPlan(data, domain, entity_id)
                   IN  IF plan.exc # "none" THEN Raised(plan.exc)
                       ELSE IF plan.service = NoService THEN Returned
                       ELSE async_call(domain, plan.service, plan.service_data, ok)

\* SmartPanelController.handle_action, lines 88-129: the service and its data.
SmartPlanValue(domain, sd, val) ==
    CASE domain = "light" -> Plan(SERVICE_TURN_ON, (ATTR_BRIGHTNESS :> PInt(val)) @@ sd)
      [] domain = "fan" -> Plan(SERVICE_TURN_ON, ("percentage" :> PInt(val)) @@ sd)
      [] domain \in {"number", "input_number"} ->
            Plan("set_value", ("value" :> PInt(val)) @@ sd)
      [] domain = "media_player" ->
            Plan("volume_set",
                 ("volume_level" :> IF val > 1 THEN PFloat(val) ELSE PInt(val)) @@ sd)
      [] domain = "cover" -> Plan("set_cover_position", ("position" :> PInt(val)) @@ sd)
      [] domain = "climate" -> Plan("set_temperature", ("temperature" :> PInt(val)) @@ sd)
      [] OTHER -> Plan(NoService, sd)
SmartPlan(data, domain, entity_id) ==
    LET sd == (ATTR_ENTITY_ID :> entity_id) IN
    IF "state" \in DOMAIN data.v
    THEN Plan(IF data.v["state"] = PStr("on") THEN SERVICE_TURN_ON ELSE SERVICE_TURN_OFF, sd)
    ELSE IF "value" \in DOMAIN data.v
    THEN LET val == int(data.v["value"]) IN
         IF val.exc # "none" THEN PlanRaised(val.exc) ELSE SmartPlanValue(domain, sd, val.v)
    ELSE IF "rgb_color" \in DOMAIN data.v
    THEN Plan(SERVICE_TURN_ON, (ATTR_RGB_COLOR :> data.v["rgb_color"]) @@ sd)
    ELSE IF "option" \in DOMAIN data.v
    THEN CASE domain \in {"select", "input_select"} ->
                 Plan("select_option", ("option" :> data.v["option"]) @@ sd)
           [] domain = "media_player" ->
                 Plan("select_source", ("source" :> data.v["option"]) @@ sd)
           [] domain = "climate" ->
                 Plan("set_hvac_mode", ("hvac_mode" :> data.v["option"]) @@ sd)
           [] OTHER -> Plan(NoService, sd)
    ELSE Plan(NoService, sd)

\* SmartPanelController.handle_action(msg): the whole body is inside the
\* try, and its except logs the error.
handle_action(msg, ok) ==
    IF msg.text # "json" THEN Logged
    ELSE LET data == msg.v IN
         IF data.k # "dict" THEN Logged
         ELSE LET entity_id == Get(data, "id") IN
              IF entity_id.k # "str" THEN Logged
              ELSE LET domain == FirstPart[entity_id.v]
                       plan == SmartPlan(data, domain, entity_id)
                   IN  IF plan.exc # "none" THEN Logged
                       ELSE IF plan.service = NoService THEN Returned
                       ELSE [async_call(domain, plan.service, plan.service_data, ok)
                                EXCEPT !.exc = "none", !.logged = ~ok]

\* How a state-change handler ends: the exception that leaves it and the
\* payloads it published on the state topic, in order.
Pushed(published) == [exc |-> "none", published |-> published]
\* A step that may set one key of a payload: skip is the except branch or
\* the absent attribute.
Coerced(c) == [exc |-> c.exc, skip |-> FALSE, v |-> PInt(c.v)]
Skipped == [exc |-> "none", skip |-> TRUE, v |-> PNone]
\* try: payload["value"] = ...; except Exception: pass
Try(c) == IF c.exc # "none" THEN Skipped ELSE c
\* r, g, b = x; [int(r), int(g), int(b)]
Unpack3(x) ==
    IF x.k # "list" THEN [exc |-> "TypeError", skip |-> FALSE, v |-> PNone]
    ELSE IF Len(x.v) # 3 THEN [exc |-> "ValueError", skip |-> FALSE, v |-> PNone]
    ELSE IF \E i \in 1..3 : int(x.v[i]).exc # "none"
         THEN [exc |-> "ValueError", skip |-> FALSE, v |-> PNone]
         ELSE [exc |-> "none", skip |-> FALSE,
               v |-> PList([i \in 1..3 |-> PInt(int(x.v[i]).v)])]

\* MeshPanelManager._push_state, lines 159-167: payload["value"].
PushValue(attrs) ==
    IF ATTR_BRIGHTNESS \in DOMAIN attrs THEN Coerced(int(attrs[ATTR_BRIGHTNESS]))
    ELSE IF "current_position" \in DOMAIN attrs THEN Coerced(int(attrs["current_position"]))
    ELSE IF "volume_level" \in DOMAIN attrs
    THEN Try(Coerced(IntFloatTimesHundred(attrs["volume_level"])))
    ELSE Skipped
\* lines 170-175: payload["rgb_color"].
PushColor(attrs) ==
    IF ATTR_RGB_COLOR \in DOMAIN attrs THEN Try(Unpack3(attrs[ATTR_RGB_COLOR])) ELSE Skipped
\* MeshPanelManager._push_state: one payload with every key it could set.
_push_state(entity_id, state, attrs) ==
    LET value == PushValue(attrs)
        color == PushColor(attrs)
        payload == (IF color.skip THEN EmptyF ELSE ("rgb_color" :> color.v))
                   @@ (IF value.skip THEN EmptyF ELSE ("value" :> value.v))
                   @@ ("entity" :> PStr(entity_id) @@ "state" :> PStr(state))
    IN  IF value.exc # "none" THEN [exc |-> value.exc, published |-> <<>>]
        ELSE Pushed(<<payload>>)
\* A listener without the `if not s: return` guard: s.state of None.
StateEventUnguarded(event) ==
    IF event.new_state.k = "none" THEN [exc |-> "AttributeError", published |-> <<>>]
    ELSE _push_state(event.entity_id, event.new_state.state, event.new_state.attributes)
\* MeshPanelManager._handle_state_event
_handle_state_event(event) ==
    IF event.new_state.k = "none" THEN Pushed(<<>>)
    ELSE _push_state(event.entity_id, event.new_state.state, event.new_state.attributes)

\* SmartPanelController.handle_ha_state_change, lines 151-174: the
\* supplementary payload of the n-th attribute block, or what it raises.
AttrBlocks == <<"brightness", "volume_level", "percentage", "current_position", "rgb_color">>
Supplementary(entity_id, attributes, n) ==
    LET a == AttrBlocks[n] IN
    IF a \notin DOMAIN attributes THEN Skipped
    ELSE IF a = "volume_level"
    THEN LET vol == IntTimesHundred(attributes[a]) IN
         [exc |-> vol.exc, skip |-> FALSE,
          v |-> ("entity" :> PStr(entity_id) @@ "value" :> PInt(vol.v))]
    ELSE [exc |-> "none", skip |-> FALSE,
          v |-> ("entity" :> PStr(entity_id)
                 @@ (IF a = "rgb_color" THEN "rgb_color" ELSE "value") :> attributes[a])]
RECURSIVE PublishFrom(_, _, _, _)
PublishFrom(entity_id, attributes, n, published) ==
    IF n > Len(AttrBlocks) THEN Pushed(published)
    ELSE LET p == Supplementary(entity_id, attributes, n) IN
         IF p.exc # "none" THEN [exc |-> p.exc, published |-> published]
         ELSE PublishFrom(entity_id, attributes, n + 1,
                          IF p.skip THEN published ELSE Append(published, p.v))
\* SmartPanelController.handle_ha_state_change: the base payload, then one
\* payload for each attribute it knows.
handle_ha_state_change(event) ==
    IF event.new_state.k = "none" THEN Pushed(<<>>)
    ELSE PublishFrom(event.entity_id, event.new_state.attributes, 1,
                     <<("entity" :> PStr(event.entity_id)
                        @@ "state" :> PStr(event.new_state.state))>>)

\* ----------------------------------------------------- codecs: the inputs
ActionIds ==
    {PStr(t) : t \in DOMAIN FirstPart} \cup {PInt(5), PNone}
StateValues == {PStr("on"), PStr("ON"), PStr("off"), PInt(1)}
ValueValues == {PInt(0), PInt(1), PInt(50), PInt(100), PInt(128), PStr("7"), PStr("abc"),
                PNone, PFloat(150)}
Rgb == PList(<<PInt(1), PInt(2), PInt(3)>>)
ActionFields ==
    {EmptyF}
    \cup {("state" :> v) : v \in StateValues}
    \cup {("value" :> v) : v \in ValueValues}
    \cup {("rgb_color" :> Rgb), ("option" :> PStr("A"))}
    \cup {("state" :> PStr("on") @@ "value" :> PInt(50)),
          ("value" :> PInt(50) @@ "rgb_color" :> Rgb),
          ("rgb_color" :> Rgb @@ "option" :> PStr("A")),
          ("state" :> PStr("off") @@ "value" :> PInt(50) @@ "rgb_color" :> Rgb
              @@ "option" :> PStr("A"))}
ActionObjects ==
    {PDict(f) : f \in ActionFields}
    \cup {PDict(("id" :> i) @@ f) : i \in ActionIds, f \in ActionFields}
\* msg.payload: a text json.loads rejects, the empty text, or the text of a
\* JSON value.
ActionMessages ==
    {[what |-> "msg", text |-> t, v |-> PNone] : t \in {"bad", "empty"}}
    \cup {[what |-> "msg", text |-> "json", v |-> x] :
             x \in ActionObjects \cup {PNone, PInt(7), PList(<<PInt(1)>>), PStr("light.x")}}

\* The attributes of a new state: any of the five the relays know, each
\* with a value Home Assistant reports or one that cannot be coerced.
AttrValues ==
    [a \in {"brightness", "volume_level", "percentage", "current_position", "rgb_color"} |->
        CASE a = "brightness" -> {PInt(200), PNone, PStr("x")}
          [] a = "volume_level" -> {PFloat(50), PFloat(29), PNone}
          [] a = "percentage" -> {PInt(30)}
          [] a = "current_position" -> {PInt(40)}
          [] OTHER -> {Rgb, PList(<<PInt(1), PInt(2)>>), PNone}]
RECURSIVE AttrsOver(_)
AttrsOver(names) ==
    IF names = {} THEN {EmptyF}
    ELSE LET a == CHOOSE x \in names : TRUE
             rest == AttrsOver(names \ {a})
         IN  rest \cup {(a :> v) @@ f : v \in AttrValues[a], f \in rest}
StateEvents ==
    {[what |-> "event", entity_id |-> "light.x", new_state |-> PNone]}
    \cup {[what |-> "event", entity_id |-> "light.x",
           new_state |-> [k |-> "state", state |-> "on", attributes |-> f]] :
             f \in AttrsOver(DOMAIN AttrValues)}

\* ---------------------------------------------------- codecs: the actions
CStay == UNCHANGED <<pvars, evars, bvars, cin, xvars>>
\* The panel publishes cin on the action topic and the bridge of the
\* variant handles it.
HandleAction ==
    /\ cstage = "input"
    /\ cin.what = "msg"
    /\ \E ok \in BOOLEAN :
       \E r \in {IF variant = "mesh_panel" THEN _handle_action(cin, ok)
                 ELSE handle_action(cin, ok)} :
          cout' = [op |-> "action", exc |-> r.exc, calls |-> r.calls, published |-> <<>>,
                   logged |-> r.logged]
    /\ cstage' = "applied"
    /\ CStay

\* Home Assistant reports the state change cin and the listener of the
\* variant relays it.
HandleStateEvent ==
    /\ cstage = "input"
    /\ cin.what = "event"
    /\ \E r \in {IF variant = "mesh_panel" THEN _handle_state_event(cin)
                 ELSE handle_ha_state_change(cin)} :
          cout' = [op |-> "state", exc |-> r.exc, calls |-> <<>>,
                   published |-> r.published, logged |-> FALSE]
    /\ cstage' = "applied"
    /\ CStay

CInit ==
    /\ pin = BlankText
    /\ pstage = "input"
    /\ pout = NoOut
    /\ EInit
    /\ variant \in {"mesh_panel", "smart_panel"}
    /\ b_options = NewBridgeOptions
    /\ b_loaded = FALSE
    /\ b_reload = FALSE
    /\ instances = <<>>
    /\ hass_data = 0
    /\ deleted = {}
    /\ relay = [entity |-> "none", by |-> {}]
    /\ handled = {}
    /\ b_pc = "idle"
    /\ gap = NoGap
    /\ cin \in ActionMessages \cup StateEvents
    /\ cstage = "input"
    /\ cout = NoDone
    /\ SIdle /\ DIdle /\ QIdle

CNext == HandleAction \/ HandleStateEvent
SpecCodec == CInit /\ [][CNext]_vars

\* -------------------------------------------------------- the bridge start
\* Layouts a start has to cope with: an empty entity reference, and a
\* slider control bound to "<entity> (<attribute>)".
DevEmptyRef == [state_entity |-> "", controls |-> <<"light.a", "">>]
DevSuffix == [state_entity |-> "none", controls |-> <<"light.b (brightness)">>]
StartLayouts == {<<>>, <<DevA>>, <<DevB>>, <<DevEmptyRef>>, <<DevSuffix>>, <<DevB, DevSuffix>>}
\* hass.states: the entities the backend knows, each with its state.  The
\* states of the model have no attributes.
StartEntities == {"light.a", "light.b", "sensor.b"}
StateMaps == UNION {[K -> {"on", "off"}] : K \in SUBSET StartEntities}
\* The options an entry can have when its bridge starts.  MeshPanelManager
\* reads layout_config, a key the flows of the repository never write.
StartOptions ==
    IF variant = "mesh_panel"
    THEN {NewBridgeOptions}
         \cup {[NewBridgeOptions EXCEPT !.layout_config = [set |-> TRUE, v |-> L]] :
                  L \in StartLayouts}
    ELSE {NewBridgeOptions}

\* the payloads of the state topic that the initial push publishes:
\* for ent in self.entities_to_watch: s = self.hass.states.get(ent); if s: ...
InitialPush(watch, states) ==
    UNION {{r.published[i] : i \in 1..Len(r.published)} :
              r \in {_push_state(ent, states[ent], EmptyF) : ent \in watch \cap DOMAIN states}}
\* MeshPanelManager(hass, entry) and async_setup(): the devices it uses, its
\* watch set, the messages it publishes retained on the ui topic and the
\* payloads it publishes on the state topic.
async_setup(opts, states) ==
    Only({[op |-> "start", exc |-> "none", devices |-> devices,
           watch |-> entities_to_watch(devices),
           ui |-> <<[devices |-> devices]>>,
           pushed |-> InitialPush(entities_to_watch(devices), states)] :
             devices \in {IF opts.layout_config.set THEN opts.layout_config.v
                          ELSE DEFAULT_LAYOUT}})
\* SmartPanelController.publish_ui
publish_ui(devices_config) == [devices |-> devices_config]
\* smart_panel async_setup_entry and SmartPanelController.start(): the
\* watch set and the UI only where devices_config is not empty, and no
\* push of the current states.
start(opts, states) ==
    Only({[op |-> "start", exc |-> "none", devices |-> devices_data,
           watch |-> watched_entities(devices_data),
           ui |-> IF devices_data = <<>> THEN <<>> ELSE <<publish_ui(devices_data)>>,
           pushed |-> {}] :
             devices_data \in {IF opts.manual_config.set THEN opts.manual_config.v
                               ELSE <<>>}})

SStay ==
    UNCHANGED <<pvars, evars, cvars, dvars, qvars, variant, hass_states, b_loaded, b_reload,
                instances, hass_data, deleted, relay, handled, b_pc, gap>>
\* A new bridge object starts on the options opts: what it publishes
\* retained replaces the retained message of the ui topic.
StartOn(opts) ==
    \E r \in {IF variant = "mesh_panel" THEN async_setup(opts, hass_states)
               ELSE start(opts, hass_states)} :
       /\ started' = r
       /\ retained_ui' = IF r.ui = <<>> THEN retained_ui ELSE r.ui
\* Home Assistant sets the entry up.
SetupBridge ==
    /\ started = NoBridge
    /\ StartOn(b_options)
    /\ UNCHANGED b_options
    /\ SStay
\* The options flow of the variant stores another layout and the update
\* listener reloads the entry: the old bridge is unloaded, a new one starts.
ReplaceLayout ==
    /\ started # NoBridge
    /\ \E L \in StartLayouts :
          /\ L # Stored
          /\ \E opts \in {IF variant = "mesh_panel" THEN [b_options EXCEPT !.devices = L]
                           ELSE [b_options EXCEPT !.manual_config = [set |-> TRUE, v |-> L]]} :
                /\ b_options' = opts
                /\ StartOn(opts)
    /\ SStay

SInit ==
    /\ pin = BlankText
    /\ pstage = "input"
    /\ pout = NoOut
    /\ EInit
    /\ CIdle
    /\ variant \in {"mesh_panel", "smart_panel"}
    /\ b_options \in StartOptions
    /\ b_loaded = FALSE
    /\ b_reload = FALSE
    /\ instances = <<>>
    /\ hass_data = 0
    /\ deleted = {}
    /\ relay = [entity |-> "none", by |-> {}]
    /\ handled = {}
    /\ b_pc = "idle"
    /\ gap = NoGap
    /\ hass_states \in StateMaps
    /\ started = NoBridge
    /\ retained_ui = <<>>
    /\ DIdle /\ QIdle
SNext == SetupBridge \/ ReplaceLayout
SpecStart == SInit /\ [][SNext]_vars

\* --------------------------------------------------------------- discovery
CONF_PANEL_ID == "panel_id"
\* msg.payload of an announce message: a text json.loads rejects, or the
\* text of a JSON value.
AnnouncePayloads ==
    {[text |-> "bad", v |-> PNone]}
    \cup {[text |-> "json", v |-> x] :
             x \in {PNone, PList(<<>>), PStr("p1"), PDict(EmptyF),
                    PDict("ip" :> PStr("10.0.0.7")),
                    PDict(CONF_PANEL_ID :> PStr("") @@ "ip" :> PStr("10.0.0.7")),
                    PDict(CONF_PANEL_ID :> PStr("p1") @@ "ip" :> PStr("10.0.0.7")),
                    PDict(CONF_PANEL_ID :> PStr("p2"))}}
\* What the user types as Panel ID in the user form.
TypedPanelIds == {"p1", " p1 ", "p2"}

\* hass.config_entries.flow.async_init(DOMAIN, context={"source": source},
\* data=data): a flow whose first step has not run yet.
async_init(source, data) == [source |-> source, step |-> "init", data |-> data]
\* message_received(msg), given the entries of the domain: the flows it
\* starts, and whether it wrote to the log.  The whole body is in the try.
message_received(msg, entries) ==
    IF msg.text = "bad" \/ msg.v.k # "dict"
    THEN [exc |-> "none", logged |-> TRUE, init |-> <<>>]
    ELSE Only({IF not(panel_id) \/ \E i \in 1..Len(entries) : entries[i].unique_id = panel_id
               THEN [exc |-> "none", logged |-> FALSE, init |-> <<>>]
               ELSE [exc |-> "none", logged |-> FALSE,
                     init |-> <<async_init("discovery",
                                           PDict(CONF_PANEL_ID :> panel_id
                                                 @@ "ip" :> Get(msg.v, "ip")))>>] :
                  panel_id \in {Get(msg.v, CONF_PANEL_ID)}})

\* self._abort_if_unique_id_configured(), after async_set_unique_id: an
\* entry of the domain has the unique id.
_abort_if_unique_id_configured(entries, unique_id) ==
    \E i \in 1..Len(entries) : entries[i].unique_id = unique_id
\* How a step of the config flow ends, and the entry it creates.
FlowAbort(reason) == [result |-> "abort", reason |-> reason, entry |-> <<>>]
FlowCreate(panel_id) ==
    [result |-> "create_entry", reason |-> "none",
     entry |-> <<[unique_id |-> panel_id, panel_id |-> panel_id]>>]
\* MeshPanelConfigFlow.async_step_user(user_input) with an input
async_step_user(entries, typed) ==
    Only({IF _abort_if_unique_id_configured(entries, panel_id)
          THEN FlowAbort("already_configured")
          ELSE FlowCreate(panel_id) :
             panel_id \in {PStr(Strip(typed))}})
\* MeshPanelConfigFlow.async_step_mqtt(discovery_info)
async_step_mqtt(entries, discovery_info) ==
    Only({IF not(panel_id) THEN FlowAbort("unknown")
          ELSE IF _abort_if_unique_id_configured(entries, panel_id)
               THEN FlowAbort("already_configured")
               ELSE FlowCreate(panel_id) :
             panel_id \in {IF discovery_info.k = "dict" THEN Get(discovery_info, CONF_PANEL_ID)
                           ELSE PNone}})

DStay == UNCHANGED <<pvars, evars, bvars, cvars, svars, qvars>>
\* A message nobody is subscribed for.
Undelivered == [exc |-> "none", logged |-> FALSE, init |-> <<>>]
\* A panel publishes msg on smartpanel/announce; where the listener of
\* async_setup_discovery is subscribed, message_received runs up to the
\* flow it starts.
Announce ==
    /\ announce.n < MaxAnnounces
    /\ \E msg \in AnnouncePayloads :
       \E r \in {IF "smartpanel/announce" \in subscribed
                 THEN message_received(msg, config_entries) ELSE Undelivered} :
          /\ Len(flows) + Len(r.init) <= MaxFlows
          /\ flows' = flows \o r.init
          /\ announce' = [n |-> announce.n + 1, payload |-> msg, exc |-> r.exc,
                          logged |-> r.logged]
    /\ UNCHANGED <<config_entries, subscribed>>
    /\ DStay
\* The user adds the integration: the flow shows the user form.
ManualSetup ==
    /\ Len(flows) < MaxFlows
    /\ flows' = Append(flows, [async_init("user", PNone) EXCEPT !.step = "user"])
    /\ UNCHANGED <<config_entries, announce, subscribed>>
    /\ DStay
\* flows without the i-th, and the entries with those of a step result
FlowDone(i, r) ==
    /\ Len(config_entries) + Len(r.entry) <= MaxEntries
    /\ flows' = Without(flows, i)
    /\ config_entries' = config_entries \o r.entry
    /\ UNCHANGED <<announce, subscribed>>
    /\ DStay
\* The first step of a flow started by an announce message.  The class has
\* no step of the name of its source; the flow goes on with one of the two
\* steps it has, the mqtt step on the data of the message or the user form.
DiscoveryStep ==
    \E i \in 1..Len(flows) :
       /\ flows[i].step = "init"
       /\ \/ \E r \in {async_step_mqtt(config_entries, flows[i].data)} : FlowDone(i, r)
          \/ /\ flows' = [flows EXCEPT ![i].step = "user"]
             /\ UNCHANGED <<config_entries, announce, subscribed>>
             /\ DStay
\* The user submits the user form of a flow.
UserSubmit ==
    \E i \in 1..Len(flows) :
       /\ flows[i].step = "user"
       /\ \E typed \in TypedPanelIds :
          \E r \in {async_step_user(config_entries, typed)} : FlowDone(i, r)
\* The user closes the form of a flow.
CloseFlow ==
    \E i \in 1..Len(flows) :
       /\ flows[i].step = "user"
       /\ FlowDone(i, FlowAbort("user_closed"))

DInit ==
    /\ pin = BlankText
    /\ pstage = "input"
    /\ pout = NoOut
    /\ EInit
    /\ BIdle
    /\ CIdle
    /\ SIdle /\ DIdle /\ QIdle
DNext == Announce \/ ManualSetup \/ UserSubmit \/ CloseFlow
SpecDiscovery == DInit /\ [][DNext]_vars

\* The integration as it would run with async_setup_discovery called at
\* startup (line 66: the listener is subscribed).
DInitHooked ==
    /\ pin = BlankText
    /\ pstage = "input"
    /\ pout = NoOut
    /\ EInit
    /\ BIdle
    /\ CIdle
    /\ SIdle /\ QIdle
    /\ config_entries = <<>>
    /\ flows = <<>>
    /\ announce = NoAnnounce
    /\ subscribed = {"smartpanel/announce"}
DNextHooked == DNext \/ DiscoveryStep
SpecDiscoveryHooked == DInitHooked /\ [][DNextHooked]_vars

\* ---------------------------------------------------------------- dispatch
\* The action messages of a run: a switch, a slider, a text json.loads
\* rejects.
DispatchMessages ==
    {[what |-> "msg", text |-> "json",
      v |-> PDict("id" :> PStr("light.x") @@ "state" :> PStr("on"))],
     [what |-> "msg", text |-> "json",
      v |-> PDict("id" :> PStr("fan.x") @@ "value" :> PInt(50))],
     [what |-> "msg", text |-> "bad", v |-> PNone]}

\* A handler that awaits the end of its service call.
blocking_call == TRUE
\* async_call(..., blocking=False, ...) in _handle_action; handle_action
\* leaves the parameter at its default, which is False as well.
blocking == FALSE

QStay ==
    UNCHANGED <<pvars, evars, cvars, svars, dvars, variant, b_options, b_loaded, b_reload,
                instances, hass_data, deleted, relay, handled, b_pc, gap>>
\* A panel publishes a message on the action topic: the MQTT client
\* schedules the handler of the subscription for it.
Receive ==
    /\ received < MaxMessages
    /\ \E msg \in DispatchMessages :
          inbox' = Append(inbox, [n |-> received + 1, msg |-> msg])
    /\ received' = received + 1
    /\ UNCHANGED <<issued, running, finished>>
    /\ QStay
\* The event loop runs the handler of the oldest message.  Nothing is
\* awaited before async_call, so the handler runs in one piece: it makes
\* its call, which the backend starts to execute unless it rejects it, and
\* returns, unless its call is a blocking one.
HandleMessage ==
    /\ inbox # <<>>
    /\ \E ok \in BOOLEAN :
       \E r \in {IF variant = "mesh_panel" THEN _handle_action(inbox[1].msg, ok)
                 ELSE handle_action(inbox[1].msg, ok)} :
          /\ issued' = issued \o [i \in 1..Len(r.calls) |->
                                     [n |-> inbox[1].n, call |-> r.calls[i]]]
          /\ running' = running \cup (IF ok /\ r.calls # <<>> THEN {inbox[1].n} ELSE {})
          /\ finished' = finished \cup (IF blocking /\ ok /\ r.calls # <<>> THEN {}
                                         ELSE {inbox[1].n})
    /\ inbox' = Tail(inbox)
    /\ UNCHANGED received
    /\ QStay
\* The backend comes to the end of a service call; a handler that awaits
\* the call returns.
BackendFinishes ==
    /\ \E n \in running :
          /\ running' = running \ {n}
          /\ finished' = finished \cup {n}
    /\ UNCHANGED <<inbox, received, issued>>
    /\ QStay

QInit ==
    /\ pin = BlankText
    /\ pstage = "input"
    /\ pout = NoOut
    /\ EInit
    /\ CIdle
    /\ variant \in {"mesh_panel", "smart_panel"}
    /\ b_options = NewBridgeOptions
    /\ b_loaded = FALSE
    /\ b_reload = FALSE
    /\ instances = <<>>
    /\ hass_data = 0
    /\ deleted = {}
    /\ relay = [entity |-> "none", by |-> {}]
    /\ handled = {}
    /\ b_pc = "idle"
    /\ gap = NoGap
    /\ SIdle /\ DIdle /\ QIdle
QNext == Receive \/ HandleMessage \/ BackendFinishes
\* The event loop runs every handler it has scheduled; nothing forces the
\* backend to come to the end of a call.
SpecDispatch == QInit /\ [][QNext]_vars /\ WF_vars(HandleMessage)

\* ------------------------------------------------------------- properties
\* The layout the flow works on and the layout the entry holds, as values.
Working == Snapshot(heap, options.devices)
Committed == Snapshot(heap, entry_options.devices)

\* C1: while a flow has not persisted (it is open, or it was abandoned), the
\* devices of config_entry.options are what they were when the flow opened.
C1_CommittedUntouchedUntilPersist ==
    last.result \notin {"none", "create_entry"} => Committed = opened

ValueOf(raw) == Only({Snapshot(r.h, r.item) : r \in {LoadNode(EmptyHeap, raw.root)}})
\* The structure the Layout Model asks of a parsed text: a mapping with a
\* devices list of mappings that have name, icon and a controls list of
\* mappings that have label, type and entity.
WellFormedControl(c) ==
    c.k = "dict" /\ {CONF_LABEL, CONF_TYPE, CONF_ENTITY} \subseteq DOMAIN c.v
WellFormedDevice(d) ==
    /\ d.k = "dict"
    /\ {CONF_NAME, CONF_ICON, CONF_CONTROLS} \subseteq DOMAIN d.v
    /\ d.v[CONF_CONTROLS].k = "list"
    /\ \A j \in 1..Len(d.v[CONF_CONTROLS].v) : WellFormedControl(d.v[CONF_CONTROLS].v[j])
WellFormed(v) ==
    /\ v.k = "dict"
    /\ CONF_DEVICES \in DOMAIN v.v
    /\ v.v[CONF_DEVICES].k = "list"
    /\ \A i \in 1..Len(v.v[CONF_DEVICES].v) : WellFormedDevice(v.v[CONF_DEVICES].v[i])
StructurallyInvalid(raw) ==
    \/ raw.fmt = "bad"
    \/ raw.fmt \in {"json", "yaml"} /\ ~WellFormed(ValueOf(raw))

\* C3: _parse_raw_to_devices fails with ValueError, and with nothing else,
\* on every structurally invalid text.
C3_InvalidTextRaisesValueError ==
    (pout.op = "parse" /\ StructurallyInvalid(pin)) => pout.exc = "ValueError"

\* The ids of the devices and controls of a layout value, in order.
RECURSIVE Flatten(_)
Flatten(seqs) == IF seqs = <<>> THEN <<>> ELSE Head(seqs) \o Flatten(Tail(seqs))
IdsIn(L) ==
    [i \in 1..Len(L.v) |-> L.v[i].v[CONF_ID]]
    \o Flatten([i \in 1..Len(L.v) |->
                   [j \in 1..Len(L.v[i].v[CONF_CONTROLS].v) |->
                       L.v[i].v[CONF_CONTROLS].v[j].v[CONF_ID]]])

\* C4: in every state of an open flow, every device and control of the
\* working layout has a non-empty id and no two of them share one.
C4_IdsNonEmptyUnique ==
    step # "closed" =>
        /\ \A i \in 1..Len(IdsIn(Working)) :
              IdsIn(Working)[i].k = "str" /\ IdsIn(Working)[i].v # ""
        /\ \A i, j \in 1..Len(IdsIn(Working)) :
              i # j => IdsIn(Working)[i] # IdsIn(Working)[j]

\* first index of the element with the given id in a sequence of dict
\* values, 0 if none
FirstWithId(items, id) ==
    IF \E i \in 1..Len(items) : items[i].v[CONF_ID] = id
    THEN CHOOSE i \in 1..Len(items) :
            /\ items[i].v[CONF_ID] = id
            /\ \A j \in 1..(i - 1) : items[j].v[CONF_ID] # id
    ELSE 0
\* after is before but for element i, which keeps its id
SameButAt(before, after, i) ==
    /\ Len(after) = Len(before)
    /\ \A j \in 1..Len(before) : j # i => after[j] = before[j]
    /\ i # 0 => after[i].v[CONF_ID] = before[i].v[CONF_ID]
\* An edit of the current device: only that device changes, and neither its
\* id nor its controls do.
DeviceEditFrame(before, after) ==
    /\ SameButAt(before, after, FirstWithId(before, current_device_id))
    /\ FirstWithId(before, current_device_id) # 0 =>
          after[FirstWithId(before, current_device_id)].v[CONF_CONTROLS]
             = before[FirstWithId(before, current_device_id)].v[CONF_CONTROLS]
\* An edit of the current control: only that control changes, it keeps its
\* id and its place, and its device changes in nothing but that control.
ControlEditFrame(before, after) ==
    /\ Len(after) = Len(before)
    /\ \A j \in 1..Len(before) :
          IF j # FirstWithId(before, current_device_id) THEN after[j] = before[j]
          ELSE /\ DOMAIN after[j].v = DOMAIN before[j].v
               /\ \A key \in DOMAIN before[j].v \ {CONF_CONTROLS} :
                     after[j].v[key] = before[j].v[key]
               /\ SameButAt(before[j].v[CONF_CONTROLS].v, after[j].v[CONF_CONTROLS].v,
                            FirstWithId(before[j].v[CONF_CONTROLS].v, current_control_id))

\* C5: a handler that edits the current device, or the current control
\* (current_control_id is set), keeps the ids, the places and every other
\* element of the working layout.
C5_EditKeepsIdsAndOthers ==
    [][/\ (last'.op = "device" /\ current_device_id # PNone)
             => DeviceEditFrame(Working.v, Snapshot(heap', options'.devices).v)
       /\ (last'.op \in {"control", "control_slider", "control_select"}
              /\ current_control_id # PNone /\ step' = "controls")
             => ControlEditFrame(Working.v, Snapshot(heap', options'.devices).v)]_vars

\* C6: for every layout the parser accepts, parsing its JSON text and
\* parsing its YAML text both give the layout back.
C6_ParseSerializeRoundTrip ==
    pout.op \in {"json", "yaml"} => (pout.exc = "none" /\ pout.once = pout.before)

\* what _ensure_ids may do to a control c, giving o
ControlFilled(c, o) ==
    /\ DOMAIN o.v = DOMAIN c.v \cup {CONF_ID}
    /\ \A key \in DOMAIN c.v : o.v[key] = c.v[key]
\* what _ensure_ids may do to a device d, giving o
DeviceFilled(d, o) ==
    /\ DOMAIN o.v = DOMAIN d.v \cup {CONF_ID, CONF_CONTROLS}
    /\ \A key \in DOMAIN d.v \ {CONF_CONTROLS} : o.v[key] = d.v[key]
    /\ IF CONF_CONTROLS \notin DOMAIN d.v THEN o.v[CONF_CONTROLS] = PList(<<>>)
       ELSE IF d.v[CONF_CONTROLS].k # "list" THEN o.v[CONF_CONTROLS] = d.v[CONF_CONTROLS]
       ELSE /\ Len(o.v[CONF_CONTROLS].v) = Len(d.v[CONF_CONTROLS].v)
            /\ \A j \in 1..Len(d.v[CONF_CONTROLS].v) :
                  ControlFilled(d.v[CONF_CONTROLS].v[j], o.v[CONF_CONTROLS].v[j])
LayoutFilled(b, o) ==
    IF b.k # "list" THEN o = b
    ELSE /\ Len(o.v) = Len(b.v)
         /\ \A i \in 1..Len(b.v) : DeviceFilled(b.v[i], o.v[i])

DecodesTo(raw, L) ==
    \E r \in {_parse_raw_to_devices(EmptyHeap, raw, nextId)} :
       r.exc = "none" /\ Snapshot(r.h, r.devices) = L

\* C8: when the flow has persisted (Done, or a raw editor submit), the raw
\* YAML and the raw JSON of the entry each decode to the entry's devices.
C8_PersistedTextsDecodeToDevices ==
    last.result = "create_entry" =>
        /\ DecodesTo(entry_options.raw_yaml, Committed)
        /\ DecodesTo(entry_options.raw_json, Committed)

\* C9: once a layout without a deleted device is stored and the bridge runs
\* on it, the bridge in hass.data watches no entity only the deleted device
\* had, and a state change of such an entity is published by nobody.
C9_DeletedDeviceNotRelayed ==
    (b_loaded /\ ~b_reload /\ b_pc = "idle" /\ deleted # {}) =>
        /\ deleted \cap instances[hass_data].watch = {}
        /\ relay.entity \in deleted => relay.by = {}

\* C10: whatever was set up, reloaded and unloaded, an action message is
\* handled by at most one bridge object, and so is a state change.
C10_OneBridgeHandlesMessages ==
    Cardinality(handled) <= 1 /\ Cardinality(relay.by) <= 1

\* ------------------------------------------------ properties of the codecs
\* The action message under test is a JSON object, and its fields.
IsObject(msg) == msg.text = "json" /\ msg.v.k = "dict"
Fields(msg) == DOMAIN msg.v.v
\* its id is a non-empty string
HasEntityId(msg) ==
    /\ IsObject(msg)
    /\ "id" \in Fields(msg)
    /\ msg.v.v["id"].k = "str"
    /\ msg.v.v["id"].v # ""
\* it has no id, or the empty one
LacksId(msg) ==
    /\ IsObject(msg)
    /\ \/ "id" \notin Fields(msg)
       \/ msg.v.v["id"].k = "str" /\ msg.v.v["id"].v = ""
DomainOfMsg(msg) == FirstPart[msg.v.v["id"].v]
Handled == cstage = "applied" /\ cout.op = "action"
Relayed == cstage = "applied" /\ cout.op = "state"

\* C12: an action message without an id, or with the empty id, makes no
\* service call and the handler returns normally.
C12_NoIdNoCall ==
    (Handled /\ LacksId(cin)) => (cout.calls = <<>> /\ cout.exc = "none")

\* C13: an action payload that cannot be parsed makes no service call, is
\* logged, and the handler returns normally.
C13_MalformedLoggedAndDropped ==
    (Handled /\ cin.text = "bad") =>
        (cout.calls = <<>> /\ cout.logged /\ cout.exc = "none")

\* C14: whatever the action payload, no exception leaves the handler.
C14_ActionHandlerNeverRaises ==
    Handled => cout.exc = "none"

\* The inbound table for value: N, by domain: the service and the key of N.
ValueTable ==
    [d \in {"light", "fan", "cover", "number", "input_number"} |->
        CASE d = "light" -> [service |-> "turn_on", key |-> "brightness"]
          [] d = "fan" -> [service |-> "turn_on", key |-> "percentage"]
          [] d = "cover" -> [service |-> "set_cover_position", key |-> "position"]
          [] OTHER -> [service |-> "set_value", key |-> "value"]]
\* {id, value: N} with an integer N and no state
IsValueMsg(msg) ==
    /\ HasEntityId(msg)
    /\ "state" \notin Fields(msg)
    /\ "value" \in Fields(msg)
    /\ msg.v.v["value"].k = "int"

\* C15: {id, value: N} with an integer N and an id of domain light, fan,
\* cover, number or input_number makes exactly one call: the service of the
\* domain, on the entity id, with N under the key of the domain.
C15_ValueCallByDomain ==
    (Handled /\ IsValueMsg(cin) /\ DomainOfMsg(cin) \in DOMAIN ValueTable) =>
        cout.calls =
            <<[domain |-> DomainOfMsg(cin),
               service |-> ValueTable[DomainOfMsg(cin)].service,
               service_data |-> ("entity_id" :> cin.v.v["id"])
                                @@ (ValueTable[DomainOfMsg(cin)].key :> cin.v.v["value"])]>>
C15_Witness ==
    /\ Handled
    /\ variant = "smart_panel"
    /\ IsValueMsg(cin)
    /\ DomainOfMsg(cin) = "cover"
    /\ cin.v.v["value"] = PInt(128)
    /\ Len(cout.calls) = 1

\* C16: {id, value: N} with a media_player id and N in 0..100 makes the
\* call media_player.volume_set with volume_level N/100.
C16_VolumeIsHundredth ==
    (/\ Handled
     /\ IsValueMsg(cin)
     /\ DomainOfMsg(cin) = "media_player"
     /\ cin.v.v["value"].v \in 0..100) =>
        /\ Len(cout.calls) = 1
        /\ cout.calls[1].domain = "media_player"
        /\ cout.calls[1].service = "volume_set"
        /\ "volume_level" \in DOMAIN cout.calls[1].service_data
        /\ Hundredths(cout.calls[1].service_data["volume_level"]) = cin.v.v["value"].v

\* C17: a message with a state and an id makes exactly one call in the
\* domain of the id: turn_on for the state "on", turn_off for any other.
C17_StateTurnsOnOrOff ==
    (Handled /\ HasEntityId(cin) /\ "state" \in Fields(cin)) =>
        cout.calls =
            <<[domain |-> DomainOfMsg(cin),
               service |-> IF cin.v.v["state"].k = "str" /\ cin.v.v["state"].v = "on"
                           THEN "turn_on" ELSE "turn_off",
               service_data |-> ("entity_id" :> cin.v.v["id"])]>>

\* A field and a domain the inbound table does not pair: the field that
\* decides is the first of value, rgb_color, option the message has.
Unpaired(msg) ==
    /\ HasEntityId(msg)
    /\ "state" \notin Fields(msg)
    /\ \/ /\ IsValueMsg(msg)
          /\ DomainOfMsg(msg) \notin {"light", "fan", "cover", "number", "input_number",
                                      "media_player", "climate"}
       \/ /\ "value" \notin Fields(msg)
          /\ "rgb_color" \in Fields(msg)
          /\ DomainOfMsg(msg) # "light"
       \/ /\ "value" \notin Fields(msg)
          /\ "rgb_color" \notin Fields(msg)
          /\ "option" \in Fields(msg)
          /\ DomainOfMsg(msg) \notin {"select", "input_select", "media_player", "climate"}

\* C18: a field/domain combination outside the inbound table makes no call
\* and no error.
C18_UnpairedFieldNoCall ==
    (Handled /\ Unpaired(cin)) =>
        (cout.calls = <<>> /\ cout.exc = "none" /\ ~cout.logged)

\* The state event under test has a new state, and its attributes.
HasState(ev) == ev.new_state.k # "none"
Attrs(ev) == ev.new_state.attributes
\* the value of attribute a can be coerced
Coercible(a, v) ==
    CASE a = "rgb_color" -> Unpack3(v).exc = "none"
      [] a = "volume_level" -> IntFloatTimesHundred(v).exc = "none"
      [] OTHER -> int(v).exc = "none"
AllCoercible(ev) == \A a \in DOMAIN Attrs(ev) : Coercible(a, Attrs(ev)[a])
BasePayload(ev) == ("entity" :> PStr(ev.entity_id) @@ "state" :> PStr(ev.new_state.state))
\* the key a payload carries attribute a under
KeyOf(a) == IF a = "rgb_color" THEN "rgb_color" ELSE "value"

\* C19: a relayed state change with k of the five attributes is published
\* as 1 + k messages, the first of them the base {entity, state}.
C19_OneMessagePerAttribute ==
    (Relayed /\ HasState(cin) /\ AllCoercible(cin)) =>
        /\ Len(cout.published) = 1 + Cardinality(DOMAIN Attrs(cin))
        /\ cout.published[1] = BasePayload(cin)

\* C20: where an attribute cannot be coerced, the handler does not raise,
\* the base state is still published, and so is every attribute that can
\* be coerced.
C20_BadAttributeSkippedAlone ==
    (Relayed /\ HasState(cin) /\ ~AllCoercible(cin)) =>
        /\ cout.exc = "none"
        /\ \E i \in 1..Len(cout.published) :
              /\ cout.published[i]["entity"] = PStr(cin.entity_id)
              /\ "state" \in DOMAIN cout.published[i]
        /\ \A a \in DOMAIN Attrs(cin) :
              Coercible(a, Attrs(cin)[a]) =>
                  \E i \in 1..Len(cout.published) : KeyOf(a) \in DOMAIN cout.published[i]

\* C11: when a reload is over, no state change that arrived while it ran, of
\* an entity of both the old and the new watch set, was left unpublished.
C11_ReloadDropsNoChange ==
    (b_pc = "idle" /\ gap.lost) => gap.entity \notin (gap.old \cap gap.new)

\* The field of an action message the handlers act on: the first of state,
\* value, rgb_color and option the message has.
Precedence == <<"state", "value", "rgb_color", "option">>
Chosen(msg) ==
    IF \E i \in 1..4 : Precedence[i] \in Fields(msg)
    THEN {Precedence[CHOOSE i \in 1..4 :
                        /\ Precedence[i] \in Fields(msg)
                        /\ \A j \in 1..(i - 1) : Precedence[j] \notin Fields(msg)]}
    ELSE {}
\* the message with its id and its chosen field only
ChosenOnly(msg) ==
    [msg EXCEPT !.v.v = [key \in Fields(msg) \cap ({"id"} \cup Chosen(msg)) |-> msg.v.v[key]]]
\* the calls the handler of the variant makes for a message
CallsFor(msg) ==
    IF variant = "mesh_panel" THEN _handle_action(msg, TRUE).calls
    ELSE handle_action(msg, TRUE).calls

\* C29: an action message makes at most one service call, and the calls it
\* makes are those of the message cut down to its id and the first field it
\* has of state, value, rgb_color, option: the later fields change nothing,
\* also where the first one maps to no call.
C29_OneFieldByPrecedence ==
    (Handled /\ IsObject(cin)) =>
        /\ Len(cout.calls) <= 1
        /\ cout.calls = CallsFor(ChosenOnly(cin))
\* A message with all four fields for a light was handled: one plain
\* turn_off, nothing of the value, the colour or the option.
C29_Witness ==
    /\ Handled
    /\ HasEntityId(cin)
    /\ DomainOfMsg(cin) = "light"
    /\ {"state", "value", "rgb_color", "option"} \subseteq Fields(cin)
    /\ Len(cout.calls) = 1
    /\ cout.calls[1].service = SERVICE_TURN_OFF
    /\ DOMAIN cout.calls[1].service_data = {ATTR_ENTITY_ID}
\* A value for a switch was handled together with a colour: no call.
C29_WitnessNoCall ==
    /\ Handled
    /\ HasEntityId(cin)
    /\ DomainOfMsg(cin) = "switch"
    /\ Fields(cin) = {"id", "value", "rgb_color"}
    /\ cout.calls = <<>>

\* C30: when the first control form is submitted with type slider or select
\* and the flow goes on to the secondary form, the save step has not run
\* and the working layout is what it was before the submit.
C30_UnfinishedEditKeepsControl ==
    [][(last'.op = "control" /\ step' \in {"control_slider", "control_select"})
          => Snapshot(heap', options'.devices) = Working]_vars

\* The options a text of the select form spells out, comma-separated or
\* newline-separated: each option trimmed, in order.
OptionsOf(text) ==
    CASE text \in {"A, B", "A\nB", "A\n B"} -> <<"A", "B">>
      [] OTHER -> <<text>>
\* the control of device cd with the given id in a layout value, if any
SavedControl(L, cd, id) ==
    IF FirstWithId(L.v, cd) = 0 THEN {}
    ELSE IF FirstWithId(L.v[FirstWithId(L.v, cd)].v[CONF_CONTROLS].v, id) = 0 THEN {}
    ELSE {L.v[FirstWithId(L.v, cd)].v[CONF_CONTROLS].v[
              FirstWithId(L.v[FirstWithId(L.v, cd)].v[CONF_CONTROLS].v, id)]}

\* C26: when the select form saves a control, the options stored in the
\* working layout are the entered options trimmed, in order, joined by
\* newlines, and saving the stored fields again would store the same.
C26_SelectOptionsNormalized ==
    [][(last'.op = "control_select" /\ step' = "controls") =>
          \A c \in SavedControl(Snapshot(heap', options'.devices), current_device_id,
                                IF Falsy(heap, current_control_id)
                                THEN heap'[control_data'.v].v[CONF_ID]
                                ELSE current_control_id) :
             /\ c.v[CONF_OPTIONS] \in {PStr(Join(OptionsOf(o[CONF_OPTIONS].v))) : o \in SelectInputs}
             /\ NormalizeOptions(c.v) = c.v]_vars

\* current_control_id names a control the current device does not have.
StaleControl ==
    /\ step # "closed"
    /\ ~Falsy(heap, current_control_id)
    /\ SavedControl(Working, current_device_id, current_control_id) = {}
\* The flow as it would be with a current_device_id no device has.
VanishedDevice == [Cur EXCEPT !.cd = PStr("gone")]
\* a handler result that shows the step and has the working layout of now
BackAt(r, id) ==
    /\ r.result = "form"
    /\ r.step = id
    /\ Snapshot(r.h, r.options.devices) = Working
    /\ Snapshot(r.h, r.entry.devices) = Committed

Referenced(devices) == EntitiesOf(devices) \ {""}
\* "<entity> (<attribute>)": the entity of a control with an attribute suffix
BaseOf == [t \in {"light.b (brightness)"} |-> "light.b"]
Suffixed(devices) == EntitiesOf(devices) \cap DOMAIN BaseOf
\* A bridge start has completed.
Started == started.op = "start"

\* C21: after a start on a layout without attribute suffixes, the watch set
\* is the set of the non-empty state_entity and entity references of the
\* layout the bridge uses, no more and no less.
C21_WatchSetIsReferenced ==
    (Started /\ Suffixed(started.devices) = {}) =>
        started.watch = Referenced(started.devices)

\* C22: after a start on a layout with a control bound to
\* "<entity> (<attribute>)", the watch set has the entity without the
\* suffix and not the suffixed text.
C22_SuffixStripped ==
    Started =>
        \A e \in Suffixed(started.devices) :
           BaseOf[e] \in started.watch /\ e \notin started.watch

\* C23: a start raises nothing, and for every entity of its watch set it
\* publishes the entity's current state on the state topic if the backend
\* knows the entity, and nothing for the entity if not.
C23_InitialStateOfKnownEntities ==
    Started =>
        /\ started.exc = "none"
        /\ \A e \in started.watch :
              IF e \in DOMAIN hass_states
              THEN ("entity" :> PStr(e) @@ "state" :> PStr(hass_states[e])) \in started.pushed
              ELSE \A m \in started.pushed : m["entity"] # PStr(e)

\* C24: after every start, the initial one and each one after a layout
\* replacement, the retained message of the ui topic is {"devices": [...]}
\* of the layout the started bridge uses, also when that layout is empty.
C24_RetainedUiIsCurrentLayout ==
    Started => retained_ui = <<[devices |-> started.devices]>>

\* An announce payload with a non-empty panel_id that no entry has as its
\* unique id.
NewPanel(msg, entries) ==
    /\ msg.text = "json"
    /\ msg.v.k = "dict"
    /\ CONF_PANEL_ID \in DOMAIN msg.v.v
    /\ msg.v.v[CONF_PANEL_ID].k = "str"
    /\ msg.v.v[CONF_PANEL_ID].v # ""
    /\ \A i \in 1..Len(entries) : entries[i].unique_id # msg.v.v[CONF_PANEL_ID]

\* C25: an announce message starts a config flow for its panel_id exactly
\* when the panel_id is non-empty and no entry has it as unique id, it
\* creates no entry itself and raises nothing whatever its payload; and at
\* no time do two entries have the same panel_id, however announce messages,
\* manual setups and the steps of the flows they start interleave.
C25_AnnounceRegistersNewPanelOnce ==
    /\ [][announce'.n # announce.n =>
            /\ announce'.exc = "none"
            /\ config_entries' = config_entries
            /\ IF NewPanel(announce'.payload, config_entries)
               THEN /\ Len(flows') = Len(flows) + 1
                    /\ flows'[Len(flows')].source = "discovery"
                    /\ Get(flows'[Len(flows')].data, CONF_PANEL_ID)
                          = announce'.payload.v.v[CONF_PANEL_ID]
               ELSE flows' = flows]_vars
    /\ [](\A i, j \in 1..Len(config_entries) :
             i # j => config_entries[i].panel_id # config_entries[j].panel_id)
\* An entry exists for a panel while a flow that an announce message of
\* the same panel started before is still in progress.
ConcurrentAnnounces ==
    /\ Len(config_entries) = 1
    /\ \E i \in 1..Len(flows) :
          /\ flows[i].source = "discovery"
          /\ Get(flows[i].data, CONF_PANEL_ID) = config_entries[1].panel_id

\* C27: the service calls are made in the order their messages were
\* received; the handler of a message has returned when the step that
\* handles the message is over, whether the backend has executed the call
\* or not; and every message received is handled in the end, also when a
\* call made before never comes to its end.
C27_OrderedNonBlockingDispatch ==
    /\ [](\A i, j \in 1..Len(issued) : i < j => issued[i].n < issued[j].n)
    /\ [][(inbox # <<>> /\ inbox' = Tail(inbox)) => inbox[1].n \in finished']_vars
    /\ \A n \in 1..MaxMessages : (received >= n) ~> (n \in finished)
\* The call of the first message is still executed by the backend while
\* the second message has been handled and its call made.
C27_Witness ==
    /\ 1 \in running
    /\ 2 \in finished
    /\ Len(issued) = 2
    /\ issued[1].n = 1 /\ issued[2].n = 2

\* The text spells out an object whose 'devices' is the empty list.
ExplicitlyEmpty(raw) ==
    /\ raw.fmt \in {"json", "yaml"}
    /\ ValueOf(raw).k = "dict"
    /\ CONF_DEVICES \in DOMAIN ValueOf(raw).v
    /\ ValueOf(raw).v[CONF_DEVICES] = PList(<<>>)
\* C31: a raw editor persists an empty list of devices only for a text that
\* spells out an empty list of devices; an empty text, or a text whose
\* 'devices' is null or another value that is not a list, is rejected:
\* nothing is persisted and the layout of the entry stays what it was.
C31_EmptyLayoutOnlyWhenSpelledOut ==
    [][last'.op \in {"yaml_editor", "json_editor"}
          => /\ (last'.result = "create_entry" /\ Snapshot(heap', entry_options'.devices) = PList(<<>>))
                  => ExplicitlyEmpty(last'.raw_text)
             /\ (last'.raw_text = BlankText
                    \/ (/\ last'.raw_text.fmt \in {"json", "yaml"}
                        /\ ValueOf(last'.raw_text).k = "dict"
                        /\ CONF_DEVICES \in DOMAIN ValueOf(last'.raw_text).v
                        /\ ValueOf(last'.raw_text).v[CONF_DEVICES].k # "list"))
                  => /\ last'.result # "create_entry"
                     /\ Snapshot(heap', entry_options'.devices) = Committed]_vars

\* C32: a state change whose new state is absent publishes nothing on the
\* state topic and raises nothing, in both variants; whatever a listener
\* publishes is about the entity of an event that carries a new state.
C32_AbsentStatePublishesNothing ==
    (cstage = "applied" /\ cout.op = "state") =>
        /\ cin.new_state.k = "none" => (cout.published = <<>> /\ cout.exc = "none")
        /\ cout.published # <<>> =>
              /\ cin.new_state.k = "state"
              /\ \A i \in 1..Len(cout.published) :
                    cout.published[i]["entity"] = PStr(cin.entity_id)
\* The listener of the panel manager has handled the event of a removed
\* entity.
C32_Witness ==
    /\ cstage = "applied"
    /\ cout.op = "state"
    /\ cin.what = "event"
    /\ cin.new_state = PNone
    /\ variant = "mesh_panel"

====
